---- MODULE Spec2Model ----
(***************************************************************************)
(* GrapesPoker: the record source (services/api.ts) and the screens that   *)
(* fetch raw collections, join them in memory and write the result to      *)
(* their view state: PlayerDetailModal, GameResultsModal, Leaderboard,     *)
(* PlayerStatsScreen and Dashboard.                                        *)
(*                                                                         *)
(* One screen is mounted per behaviour (variable screen).  A load is a     *)
(* record of the async function's position (pc) and of its locals; it      *)
(* advances one await at a time.  The server's data is a snapshot chosen   *)
(* in Init; every fetch of it may fail on its own.                         *)
(***************************************************************************)
EXTENDS Integers, Sequences, FiniteSets, TLC

VARIABLES
    screen,          \* which component this behaviour mounts
    server,          \* the record source's collections
    loadCap,         \* how many loads the behaviour may start
    \* PlayerDetailModal
    pdmPlayerId,     \* props: player.playerId
    pdmLoad,         \* loadPlayerHistory: its pc and locals
    gameHistory,     \* useState<PlayerGameHistory[]>([])
    pdmLoading,      \* useState(true)
    \* GameResultsModal
    grmScheduleId,   \* props: schedule.id
    grmLoad,         \* loadGameResults: its pc and locals
    results,         \* useState<GameResult[]>([])
    totalPlayers,    \* useState(0)
    totalPrizePool,  \* useState(0)
    grmLoading,      \* useState(true)
    \* Leaderboard
    lbTournamentId,  \* props: tournamentId
    lbLoads,         \* the loadLeaderboard calls so far: pc and locals of each
    leaderboard,     \* useState<LeaderboardEntry[]>([])
    lbPlayers,       \* useState<Map<string, Player>>(new Map())
    lbLoading,       \* useState(true)
    view,            \* useState<LeaderboardView>('points')
    sortedData,      \* const sortedData of the last render, empty under the spinner
    \* PlayerStatsScreen
    players,         \* useState<Player[]>([])
    selectedPlayer,  \* useState<Player | null>(null): <<>> or <<player>>
    playerStats,     \* useState<PlayerStatistics | null>(null): <<>> or <<stats>>
    loading,         \* useState(true)
    statsLoading,    \* useState(false)
    pssPlayersPc,    \* loadPlayers: its pc
    pssLoads,        \* the loadPlayerStatistics calls so far
    \* Dashboard
    now,             \* the clock: the local day, and whether local time is behind UTC
    dashTournaments,     \* useState<Tournament[]>([])
    selectedTournament, \* useState<Tournament | null>(null): <<>> or <<tournament>>
    nextGame,        \* useState<TournamentSchedule | null>(null): <<>> or <<schedule>>
    gameConfig,      \* useState<GameConfiguration | null>(null): <<>> or <<config>>
    dashPointLevels,     \* useState<PointLevel[]>([])
    dashLoading,     \* useState(true), Dashboard's loading
    refreshKey,      \* useState(0)
    refreshing,      \* useState(false)
    dashListPc,      \* the loadTournaments call of the mount effect: its pc
    refresh,         \* the handleRefresh call: its pc and captured selectedTournament
    dashLoads,       \* the loadTournamentDetails calls in flight
    \* TournamentScheduleTable
    tstTournamentId, \* props: tournamentId
    tstLoads,        \* the loadSchedule calls so far: pc and locals of each
    tstSchedules,    \* useState<TournamentSchedule[]>([])
    gameConfigs,     \* useState<Map<string, GameConfiguration>>(new Map())
    tstLoading,      \* useState(true)
    selectedSchedule,\* useState<TournamentSchedule | null>(null)
    \* TournamentChart
    chartTournamentId, \* props: tournamentId
    chartLoads,      \* the loadChartData calls so far: pc of each
    chartData,       \* useState<ChartData[]>([])
    chartLoading     \* useState(true)

pdmVars == <<pdmPlayerId, pdmLoad, gameHistory, pdmLoading>>
grmVars == <<grmScheduleId, grmLoad, results, totalPlayers, totalPrizePool, grmLoading>>
lbVars == <<lbTournamentId, lbLoads, leaderboard, lbPlayers, lbLoading, view, sortedData>>
pssVars == <<players, selectedPlayer, playerStats, loading, statsLoading,
             pssPlayersPc, pssLoads>>
dashVars == <<now, dashTournaments, selectedTournament, nextGame, gameConfig, dashPointLevels,
              dashLoading, refreshKey, refreshing, dashListPc, refresh, dashLoads>>
tstVars == <<tstTournamentId, tstLoads, tstSchedules, gameConfigs, tstLoading, selectedSchedule>>
chartVars == <<chartTournamentId, chartLoads, chartData, chartLoading>>
vars == <<screen, server, loadCap, pdmVars, grmVars, lbVars, pssVars, dashVars, tstVars, chartVars>>

---------------------------------------------------------------------------
(* Values of JavaScript that TLA+ has no counterpart for *)

\* a missing (undefined / null) numeric field; every amount and position of
\* the data is >= 0, so -1 is free to stand for it
undefined == -1

\* a missing string field; like undefined it is falsy
NoStr == ""

\* JavaScript truthiness of a number-or-undefined
Truthy(x) == x # undefined /\ x # 0

\* x || 0
OrZero(x) == IF Truthy(x) THEN x ELSE 0

\* `${n}` for a number-or-undefined
NumToString(n) == IF n = undefined THEN "undefined" ELSE ToString(n)

\* new Date(s).getTime() for the date strings of the data, in days; two
\* spellings of the same instant parse to the same time
getTime(s) ==
    CASE s = "2024-01-05" -> 5
      [] s = "2024-01-05T00:00:00Z" -> 5
      [] s = "2024-01-12" -> 12
      [] s = "2024-01-19" -> 19

---------------------------------------------------------------------------
(* Array and Map operations *)

RECURSIVE FilterIdx(_, _, _)
\* the indices i of 1..n with i \in keep, ascending, from index i on
FilterIdx(i, n, keep) ==
    IF i > n THEN <<>>
    ELSE IF i \in keep THEN <<i>> \o FilterIdx(i + 1, n, keep)
    ELSE FilterIdx(i + 1, n, keep)

\* Array.prototype.filter: the elements whose index is in keep, in order
ArrayFilter(arr, keep) ==
    LET idx == FilterIdx(1, Len(arr), keep)
    IN  [k \in 1..Len(idx) |-> arr[idx[k]]]

\* Map.prototype.set
MapSet(m, k, v) == [x \in (DOMAIN m) \cup {k} |-> IF x = k THEN v ELSE m[x]]

RECURSIVE MapFromFirst(_, _)
MapFromFirst(pairs, n) ==
    IF n = 0 THEN <<>>
    ELSE LET m == MapFromFirst(pairs, n - 1)
         IN  IF pairs[n][1] \in DOMAIN m THEN m
             ELSE MapSet(m, pairs[n][1], pairs[n][2])

RECURSIVE MapFromEntries(_, _)
\* new Map(); pairs.forEach(p => map.set(p[1], p[2])) over the first n pairs
MapFromEntries(pairs, n) ==
    IF n = 0 THEN <<>>
    ELSE MapSet(MapFromEntries(pairs, n - 1), pairs[n][1], pairs[n][2])

MapHas(m, k) == k \in DOMAIN m

\* Map.prototype.get of a map of numbers
MapGetNum(m, k) == IF k \in DOMAIN m THEN m[k] ELSE undefined

RECURSIVE InsertUnstable(_, _, _, _)
InsertUnstable(sorted, i, keys, pos) ==
    IF pos > Len(sorted) THEN Append(sorted, i)
    ELSE IF keys[i] <= keys[sorted[pos]]
         THEN SubSeq(sorted, 1, pos - 1) \o <<i>> \o SubSeq(sorted, pos, Len(sorted))
         ELSE InsertUnstable(sorted, i, keys, pos + 1)

RECURSIVE InsertStable(_, _, _, _)
\* insert index i into the sorted index list before the first index whose key
\* is strictly greater, scanning from pos
InsertStable(sorted, i, keys, pos) ==
    IF pos > Len(sorted) THEN Append(sorted, i)
    ELSE IF keys[i] - keys[sorted[pos]] < 0
         THEN SubSeq(sorted, 1, pos - 1) \o <<i>> \o SubSeq(sorted, pos, Len(sorted))
         ELSE InsertStable(sorted, i, keys, pos + 1)

RECURSIVE SortIdx(_, _)
\* Array.prototype.sort((a, b) => key(a) - key(b)) as a permutation of the
\* indices 1..n: the sort is stable (ECMAScript 2019)
SortIdx(keys, n) ==
    IF n = 0 THEN <<>>
    ELSE InsertStable(SortIdx(keys, n - 1), n, keys, 1)

\* arr sorted ascending by keys[i], the key of arr[i]
ArraySort(arr, keys) ==
    LET idx == SortIdx(keys, Len(arr))
    IN  [k \in 1..Len(arr) |-> arr[idx[k]]]

---------------------------------------------------------------------------
(* services/api.ts *)

ORG_ID == "org"

\* what fetch(url) can do for a collection whose records are recs
Responses(recs) ==
    { [kind |-> "neterr",  records |-> <<>>],     \* fetch rejects
      [kind |-> "status",  records |-> <<>>],     \* response.ok is false
      [kind |-> "badjson", records |-> <<>>],     \* response.json() rejects
      [kind |-> "bare",    records |-> <<>>],     \* a body without records
      [kind |-> "ok",      records |-> recs] }

fetchAPI_rethrow(resp) ==
    IF resp.kind \in {"neterr", "status", "badjson"}
    THEN [settled |-> "rejected", value |-> <<>>]
    ELSE [settled |-> "fulfilled", value |-> resp.records]

\* fetchAPI: the try block throws on a transport failure, on a status that is
\* not ok and on a body that is not JSON; the catch block returns []
fetchAPI(resp) ==
    LET try == IF resp.kind \in {"neterr", "status", "badjson"}
               THEN [threw |-> TRUE, value |-> <<>>]
               ELSE [threw |-> FALSE,
                     value |-> IF resp.kind = "bare" THEN <<>> ELSE resp.records]
    IN  IF try.threw THEN [settled |-> "fulfilled", value |-> <<>>]
        ELSE [settled |-> "fulfilled", value |-> try.value]

\* the ways fetchAPI can settle for a collection whose records are recs
Fetched(recs) == {fetchAPI(resp) : resp \in Responses(recs)}

\* Promise.all over settled fetches
AllFulfilled(rs) == \A i \in DOMAIN rs : rs[i].settled = "fulfilled"

getTournaments_unfiltered(r) == r

\* PokerLeagueAPI.getTournaments, given how its fetchAPI settled
getTournaments(r) ==
     IF r.settled = "rejected" THEN r
        ELSE [r EXCEPT !.value =
                ArrayFilter(r.value, {i \in DOMAIN r.value : r.value[i].orgId = ORG_ID})]

getTournamentSchedule_typoOnly(r, tournamentId) ==
     IF r.settled = "rejected" THEN r
        ELSE [r EXCEPT !.value =
                ArrayFilter(r.value, {i \in DOMAIN r.value :
                    r.value[i].tournamnetId = tournamentId})]

\* PokerLeagueAPI.getTournamentSchedule, given how its fetchAPI settled
getTournamentSchedule(r, tournamentId) ==
     IF r.settled = "rejected" THEN r
        ELSE [r EXCEPT !.value =
                ArrayFilter(r.value, {i \in DOMAIN r.value :
                    \/ r.value[i].tournamnetId = tournamentId
                    \/ r.value[i].tournamentId = tournamentId})]

---------------------------------------------------------------------------
(* The record source's data: types/api.ts *)

\* the longest participation collection (live_players) the server returns
MaxRows == 2

SeqsUpTo(S, n) == UNION {[1..k -> S] : k \in 0..n}

\* Tournament records: of the organization with and without a points table,
\* and of another organization
Tour(id, orgId, pointsId) == [id |-> id, orgId |-> orgId, pointsId |-> pointsId]

TournamentLists ==
    { <<Tour("T1", ORG_ID, "P1"), Tour("T2", ORG_ID, "P2")>>,
      <<Tour("T1", ORG_ID, NoStr)>>,
      <<Tour("T1", "other", "P1"), Tour("T2", ORG_ID, "P1")>> }

\* LivePlayer rows; placed is the finishing position, points and prizeMoney
\* are the values stored on the row
Row(playerId, liveGameId, placed, points, prizeMoney) ==
    [playerId |-> playerId, liveGameId |-> liveGameId, placed |-> placed,
     points |-> points, prizeMoney |-> prizeMoney,
     knockouts |-> undefined, bounties |-> undefined]

RowKinds ==
    { Row("p1", "G", 1, 7, 9),
      Row("p1", "G_1", 2, undefined, undefined),
      Row("p1", "G_1", undefined, 3, 5),
      Row("p1", "G", 3, undefined, 100),
      Row("p2", "G", 2, 30, undefined),
      Row("p1", "GX", 1, 50, 100) }

Game(id, scheduleId, numOfPlayers) ==
    [id |-> id, scheduleId |-> scheduleId, numOfPlayers |-> numOfPlayers]

\* LiveGame collections: plain, and with a duplicate id and a missing scheduleId
GameLists ==
    { <<Game("G", "s1", 2), Game("G_1", "s2", undefined)>>,
      <<Game("G", "s2", 2), Game("G_1", NoStr, 3), Game("G_1", "s1", 3)>> }

Sched(id, tournamentId, tournamnetId, date, weekNum, status, gameId) ==
    [id |-> id, tournamentId |-> tournamentId, tournamnetId |-> tournamnetId,
     date |-> date, weekNum |-> weekNum, status |-> status, gameId |-> gameId]

\* TournamentSchedule collections: the tournament key under either spelling,
\* two spellings of one date, a duplicate id, a missing date, and a record of
\* another tournament
ScheduleLists ==
    { << Sched("s1", NoStr, "T1", "2024-01-05T00:00:00Z", 1, "COMPLETED", "c1"),
         Sched("s2", "T1", NoStr, "2024-01-05", 2, "COMPLETED", "c1") >>,
      << Sched("s1", NoStr, "T1", "2024-01-12", 2, "COMPLETED", "c1"),
         Sched("s2", NoStr, "T1", "2024-01-05", 1, "COMPLETED", NoStr),
         Sched("s2", "T2", NoStr, "2024-01-19", 3, "SCHEDULED", "c1") >>,
      << Sched("s1", NoStr, "T1", "2024-01-12", 2, "COMPLETED", "c1"),
         Sched("s2", NoStr, "T1", "2024-01-19", 3, "SCHEDULED", "c1"),
         Sched("s1", "T1", "T1", NoStr, undefined, NoStr, NoStr) >> }

Prize(liveGameId, place, amount) ==
    [liveGameId |-> liveGameId, place |-> place, amount |-> amount]

\* LivePrize collections: with a duplicate (game, place) and with games whose
\* ids share a prefix
PrizeLists ==
    { <<Prize("G", 1, 100), Prize("G_1", 1, 70)>>,
      <<Prize("G", 1, 100), Prize("G_1", 2, 20), Prize("G", 1, 60), Prize("G", 2, 0)>> }

Level(levelNum, amount) == [levelNum |-> levelNum, amount |-> amount]

\* PointLevel collections: a duplicate levelNum, and no level for place 3
LevelLists ==
    { <<Level(1, 40), Level(1, 50), Level(2, 30)>> }

Person(id, firstName, lastName) ==
    [id |-> id, orgId |-> ORG_ID, firstName |-> firstName, lastName |-> lastName]

\* Player collections: plain, and with a duplicate id and an unlisted player
PlayerLists ==
    { <<Person("p1", "Ann", "Lee"), Person("p2", "Bob", "Ray")>>,
      <<Person("p1", "Ann", "Lee"), Person("p1", "Al", "Lee")>> }

Standing(tournamentId, playerId, totalPoints, gamesPlayed, earnings, totalEliminated, totalBounties) ==
    [tournamentId |-> tournamentId, playerId |-> playerId,
     totalPoints |-> totalPoints, gamesPlayed |-> gamesPlayed, earnings |-> earnings,
     totalEliminated |-> totalEliminated, totalBounties |-> totalBounties]

\* TournamentPlayer collections of tournament t: full counters, missing
\* counters, a player without a Player record, equal counters
StandingLists(t) ==
    { << Standing(t, "p1", 480, 12, 100, 3, 2),
         Standing(t, "p2", undefined, undefined, undefined, undefined, undefined) >>,
      << Standing(t, "p2", 30, 0, 0, 1, 0),
         Standing(t, "p3", 30, 2, 60, 1, 5),
         Standing(t, "p1", 50, 2, 60, 0, 5) >>,
      << Standing(t, "p1", 0, 3, undefined, 2, 1) >> }

\* LivePlayer collections of the statistics screen: two rows of one game and
\* position with different stored points, rows without a position or a game
StatsRowLists ==
    { << Row("p1", "G", 1, 7, 9), Row("p1", "G", 1, 50, undefined),
         Row("p1", "G_1", 2, undefined, undefined) >>,
      << Row("p1", "G_1", undefined, 3, 5), Row("p2", "G", 2, 30, undefined),
         Row("p1", "G", 3, undefined, 100) >>,
      << Row("p1", "GX", 1, 50, 100) >> }

\* the per-tournament collections of a tournament without any record
NoRecords ==
    [livePlayers |-> <<>>, liveGames |-> <<>>, livePrizes |-> <<>>,
     tournamentPlayers |-> <<>>]

\* the servers a modal of tournament T1 is opened against
ModalServers(playerLists) ==
    { [tournaments |-> ts, players |-> pl, schedules |-> ss,
       pointLevels |-> [p \in {"P1", "P2"} |-> IF p = "P1" THEN ls ELSE <<>>],
       of |-> [t \in {"T1", "T2"} |->
                 IF t = "T1"
                 THEN [livePlayers |-> rows, liveGames |-> gs, livePrizes |-> ps,
                       tournamentPlayers |-> <<>>]
                 ELSE NoRecords]] :
        ts \in TournamentLists, ss \in ScheduleLists \cup {<<>>}, ls \in LevelLists,
        rows \in SeqsUpTo(RowKinds, MaxRows), gs \in GameLists, ps \in PrizeLists,
        pl \in playerLists }

---------------------------------------------------------------------------
(* PlayerDetailModal.loadPlayerHistory *)

\* props.tournamentId of the modals and of the Leaderboard
TournamentId == "T1"

\* tournaments.find(t => t.id === tournamentId): its index, 0 when none
FindTournament(tournaments, tournamentId) ==
    IF \E i \in DOMAIN tournaments : tournaments[i].id = tournamentId
    THEN CHOOSE i \in DOMAIN tournaments :
            /\ tournaments[i].id = tournamentId
            /\ \A j \in 1..(i - 1) : tournaments[j].id # tournamentId
    ELSE 0

\* pointLevels.forEach(level => pointLevelMap.set(level.levelNum, level.amount))
PointLevelMap(pointLevels) ==
    MapFromEntries([i \in DOMAIN pointLevels |->
                      <<pointLevels[i].levelNum, pointLevels[i].amount>>],
                   Len(pointLevels))

\* liveGames.forEach(game => gameMap.set(game.id, game))
GameMap(liveGames) ==
    MapFromEntries([i \in DOMAIN liveGames |-> <<liveGames[i].id, liveGames[i]>>],
                   Len(liveGames))

\* schedules.forEach(s => scheduleMap.set(s.id, s))
ScheduleMap(schedules) ==
    MapFromEntries([i \in DOMAIN schedules |-> <<schedules[i].id, schedules[i]>>],
                   Len(schedules))

PrizeKey_gameOnly(liveGameId, position) == liveGameId

\* `${liveGameId}_${place}`
PrizeKey(liveGameId, position) == liveGameId \o "_" \o NumToString(position)

\* livePrizes.forEach(prize => prizeMap.set(`${prize.liveGameId}_${prize.place}`, prize.amount))
PrizeMap(livePrizes) ==
    MapFromEntries([i \in DOMAIN livePrizes |->
                      <<PrizeKey(livePrizes[i].liveGameId, livePrizes[i].place),
                        livePrizes[i].amount>>],
                   Len(livePrizes))

\* schedule?.date || '' for the row's game: game?.scheduleId ? scheduleMap.get(..) : null
GameDateOf(pg, gameMap, scheduleMap) ==
    IF /\ MapHas(gameMap, pg.liveGameId)
       /\ gameMap[pg.liveGameId].scheduleId # NoStr
       /\ MapHas(scheduleMap, gameMap[pg.liveGameId].scheduleId)
    THEN scheduleMap[gameMap[pg.liveGameId].scheduleId].date
    ELSE NoStr

\* schedule?.weekNum for the row's game
GameNumberOf(pg, gameMap, scheduleMap) ==
    IF /\ MapHas(gameMap, pg.liveGameId)
       /\ gameMap[pg.liveGameId].scheduleId # NoStr
       /\ MapHas(scheduleMap, gameMap[pg.liveGameId].scheduleId)
    THEN scheduleMap[gameMap[pg.liveGameId].scheduleId].weekNum
    ELSE undefined

CalculatedPoints_stored(pg, pointLevelMap) == pg.points

\* position ? pointLevelMap.get(position) || 0 : 0
CalculatedPoints(pg, pointLevelMap) ==
    IF Truthy(pg.placed) THEN OrZero(MapGetNum(pointLevelMap, pg.placed)) ELSE 0

\* the object the .map callback of loadPlayerHistory returns for row pg
HistoryEntry(pg, pointLevelMap, gameMap, scheduleMap, prizeMap) ==
    [gameDate   |-> GameDateOf(pg, gameMap, scheduleMap),
     gameNumber |-> GameNumberOf(pg, gameMap, scheduleMap),
     position   |-> pg.placed,
     points     |-> CalculatedPoints(pg, pointLevelMap),
     prizeMoney |-> MapGetNum(prizeMap, PrizeKey(pg.liveGameId, pg.placed))]

\* .filter(h => h.gameDate)
HistoryKeep(mapped) == {i \in DOMAIN mapped : mapped[i].gameDate # NoStr}

\* .sort((a, b) => new Date(a.gameDate).getTime() - new Date(b.gameDate).getTime())
SortByDate(entries) ==
    ArraySort(entries, [i \in DOMAIN entries |-> getTime(entries[i].gameDate)])

\* the history loadPlayerHistory builds from its locals
BuildHistory(playerId, l) ==
    LET playerGames == ArrayFilter(l.livePlayers,
                          {i \in DOMAIN l.livePlayers : l.livePlayers[i].playerId = playerId})
        mapped == [i \in DOMAIN playerGames |->
                     HistoryEntry(playerGames[i], l.pointLevelMap, l.gameMap,
                                  l.scheduleMap, l.prizeMap)]
    IN  SortByDate(ArrayFilter(mapped, HistoryKeep(mapped)))

\* the locals of a load that has not fetched anything yet
NoLocals ==
    [pc |-> "mounted", outcome |-> "none", pointsId |-> NoStr,
     tournaments |-> <<>>, livePlayers |-> <<>>, liveGames |-> <<>>,
     schedules |-> <<>>, livePrizes |-> <<>>, pointLevels |-> <<>>,
     pointLevelMap |-> <<>>, gameMap |-> <<>>, scheduleMap |-> <<>>, prizeMap |-> <<>>]

\* the maps of loadPlayerHistory, built from the fetched collections
WithMaps(l, pointLevels) ==
    [l EXCEPT !.pointLevels = pointLevels,
              !.pointLevelMap = PointLevelMap(pointLevels),
              !.gameMap = GameMap(l.liveGames),
              !.scheduleMap = ScheduleMap(l.schedules),
              !.prizeMap = PrizeMap(l.livePrizes)]

\* the rest of loadPlayerHistory once the point levels are known: build the
\* maps and the history, setGameHistory, and the finally block
pdmJoin(l, pointLevels) ==
    LET done == [WithMaps(l, pointLevels) EXCEPT !.pc = "done", !.outcome = "set"]
    IN  /\ pdmLoad' = done
        /\ gameHistory' = BuildHistory(pdmPlayerId, done)
        /\ pdmLoading' = FALSE

\* the catch and finally blocks of loadPlayerHistory
pdmCatch(l) ==
    /\ pdmLoad' = [l EXCEPT !.pc = "done", !.outcome = "caught"]
    /\ pdmLoading' = FALSE
    /\ UNCHANGED gameHistory

\* useEffect(() => { loadPlayerHistory() }): up to the first await
pdmStart ==
    /\ screen = "history"
    /\ pdmLoad.pc = "mounted"
    /\ pdmLoading' = TRUE
    /\ pdmLoad' = [pdmLoad EXCEPT !.pc = "awaitAll"]
    /\ UNCHANGED <<screen, server, loadCap, tstVars, chartVars, dashVars, pdmPlayerId, gameHistory, grmVars, lbVars, pssVars>>

pdmResolveAll_eager ==
    /\ screen = "history"
    /\ pdmLoad.pc = "awaitAll"
    /\ \E r1 \in Fetched(server.tournaments),
          r2 \in Fetched(server.of[TournamentId].livePlayers),
          r3 \in Fetched(server.of[TournamentId].liveGames),
          r4 \in Fetched(server.schedules),
          r5 \in Fetched(server.of[TournamentId].livePrizes) :
        LET rs == <<getTournaments(r1), r2, r3,
                    getTournamentSchedule(r4, TournamentId), r5>>
            l  == [pdmLoad EXCEPT !.tournaments = rs[1].value,
                                  !.livePlayers = rs[2].value,
                                  !.liveGames = rs[3].value,
                                  !.schedules = rs[4].value,
                                  !.livePrizes = rs[5].value]
            t  == FindTournament(l.tournaments, TournamentId)
        IN  IF ~AllFulfilled(rs) THEN pdmCatch(pdmLoad)
            ELSE IF t = 0 THEN pdmCatch(l)
            ELSE IF l.tournaments[t].pointsId # NoStr
                 THEN /\ pdmLoad' = [l EXCEPT !.pc = "awaitLevels",
                                               !.pointsId = l.tournaments[t].pointsId]
                      /\ gameHistory' = BuildHistory(pdmPlayerId, WithMaps(l, <<>>))
                      /\ UNCHANGED pdmLoading
                 ELSE pdmJoin(l, <<>>)
    /\ UNCHANGED <<screen, server, loadCap, tstVars, chartVars, dashVars, pdmPlayerId, grmVars, lbVars, pssVars>>

\* the Promise.all of loadPlayerHistory settles; the function runs on to its
\* next await or to its end
pdmResolveAll ==
    /\ screen = "history"
    /\ pdmLoad.pc = "awaitAll"
    /\ \E r1 \in Fetched(server.tournaments),
          r2 \in Fetched(server.of[TournamentId].livePlayers),
          r3 \in Fetched(server.of[TournamentId].liveGames),
          r4 \in Fetched(server.schedules),
          r5 \in Fetched(server.of[TournamentId].livePrizes) :
        LET rs == <<getTournaments(r1), r2, r3,
                    getTournamentSchedule(r4, TournamentId), r5>>
            l  == [pdmLoad EXCEPT !.tournaments = rs[1].value,
                                  !.livePlayers = rs[2].value,
                                  !.liveGames = rs[3].value,
                                  !.schedules = rs[4].value,
                                  !.livePrizes = rs[5].value]
            t  == FindTournament(l.tournaments, TournamentId)
        IN  IF ~AllFulfilled(rs) THEN pdmCatch(pdmLoad)
            ELSE IF t = 0 THEN pdmCatch(l)      \* throw new Error('Tournament not found')
            ELSE IF l.tournaments[t].pointsId # NoStr
                 THEN /\ pdmLoad' = [l EXCEPT !.pc = "awaitLevels",
                                               !.pointsId = l.tournaments[t].pointsId]
                      /\ UNCHANGED <<gameHistory, pdmLoading>>
                 ELSE pdmJoin(l, <<>>)
    /\ UNCHANGED <<screen, server, loadCap, tstVars, chartVars, dashVars, pdmPlayerId, grmVars, lbVars, pssVars>>

\* getPointLevels(tournament.pointsId) settles
pdmResolveLevels ==
    /\ screen = "history"
    /\ pdmLoad.pc = "awaitLevels"
    /\ \E res \in Fetched(server.pointLevels[pdmLoad.pointsId]) :
            IF res.settled = "rejected" THEN pdmCatch(pdmLoad)
            ELSE pdmJoin(pdmLoad, res.value)
    /\ UNCHANGED <<screen, server, loadCap, tstVars, chartVars, dashVars, pdmPlayerId, grmVars, lbVars, pssVars>>

---------------------------------------------------------------------------
(* GameResultsModal.loadGameResults *)

\* liveGames.find(g => g.scheduleId === schedule.id): its index, 0 when none
FindGame(liveGames, scheduleId) ==
    IF \E i \in DOMAIN liveGames : liveGames[i].scheduleId = scheduleId
    THEN CHOOSE i \in DOMAIN liveGames :
            /\ liveGames[i].scheduleId = scheduleId
            /\ \A j \in 1..(i - 1) : liveGames[j].scheduleId # scheduleId
    ELSE 0

\* allPlayers.forEach(p => playerMap.set(p.id, p))
PlayerMap(allPlayers) ==
    MapFromEntries([i \in DOMAIN allPlayers |-> <<allPlayers[i].id, allPlayers[i]>>],
                   Len(allPlayers))

\* livePrizes.filter(prize => prize.liveGameId === game.id).forEach(...)
GamePrizeMap(livePrizes, gameId) ==
    PrizeMap(ArrayFilter(livePrizes,
                {i \in DOMAIN livePrizes : livePrizes[i].liveGameId = gameId}))

\* position || 999
NoPosition == 999

\* the object the .map callback of loadGameResults returns for row gp
ResultEntry(gp, gameId, pointLevelMap, playerMap, prizeMap) ==
    [position   |-> IF Truthy(gp.placed) THEN gp.placed ELSE NoPosition,
     playerName |-> IF MapHas(playerMap, gp.playerId)
                    THEN playerMap[gp.playerId].firstName \o " "
                            \o playerMap[gp.playerId].lastName
                    ELSE "Unknown Player",
     points     |-> CalculatedPoints(gp, pointLevelMap),
     prizeMoney |-> OrZero(MapGetNum(prizeMap, PrizeKey(gameId, gp.placed)))]

\* .sort((a, b) => a.position - b.position)
SortByPosition(entries) ==
    ArraySort(entries, [i \in DOMAIN entries |-> entries[i].position])

\* gamePlayers of loadGameResults
GamePlayers(l) ==
    ArrayFilter(l.livePlayers,
        {i \in DOMAIN l.livePlayers : l.livePlayers[i].liveGameId = l.game.id})

BuildResults_unfiltered(l) ==
    LET gamePlayers == GamePlayers(l)
    IN  SortByPosition([i \in DOMAIN gamePlayers |->
                          ResultEntry(gamePlayers[i], l.game.id, l.pointLevelMap,
                                      l.playerMap, l.prizeMap)])

\* the results loadGameResults builds from its locals
BuildResults(l) ==
    LET gamePlayers == GamePlayers(l)
        mapped == [i \in DOMAIN gamePlayers |->
                     ResultEntry(gamePlayers[i], l.game.id, l.pointLevelMap,
                                 l.playerMap, l.prizeMap)]
    IN  SortByPosition(ArrayFilter(mapped,
            {i \in DOMAIN mapped : mapped[i].position # NoPosition}))

SumPrizeMoney_stored(rs, n) == IF n = 0 THEN 0 ELSE rs[1].prizeMoney * n

RECURSIVE SumPrizeMoney(_, _)
\* gameResults.reduce((sum, r) => sum + r.prizeMoney, 0) over the first n
SumPrizeMoney(rs, n) ==
    IF n = 0 THEN 0 ELSE SumPrizeMoney(rs, n - 1) + rs[n].prizeMoney

grmNoLocals ==
    [pc |-> "mounted", outcome |-> "none", pointsId |-> NoStr,
     game |-> Game(NoStr, NoStr, undefined),
     liveGames |-> <<>>, livePlayers |-> <<>>, players |-> <<>>,
     livePrizes |-> <<>>, tournaments |-> <<>>, pointLevels |-> <<>>,
     pointLevelMap |-> <<>>, playerMap |-> <<>>, prizeMap |-> <<>>]

\* the rest of loadGameResults once the point levels are known
grmJoin(l, pointLevels) ==
    LET done == [l EXCEPT !.pc = "done", !.outcome = "set",
                          !.pointLevels = pointLevels,
                          !.pointLevelMap = PointLevelMap(pointLevels),
                          !.playerMap = PlayerMap(l.players),
                          !.prizeMap = GamePrizeMap(l.livePrizes, l.game.id)]
        gameResults == BuildResults(done)
    IN  /\ grmLoad' = done
        /\ results' = gameResults
        /\ totalPlayers' = IF Truthy(l.game.numOfPlayers) THEN l.game.numOfPlayers
                           ELSE Len(GamePlayers(l))
        /\ totalPrizePool' = SumPrizeMoney(gameResults, Len(gameResults))
        /\ grmLoading' = FALSE

\* the catch and finally blocks of loadGameResults
grmCatch(l) ==
    /\ grmLoad' = [l EXCEPT !.pc = "done", !.outcome = "caught"]
    /\ grmLoading' = FALSE
    /\ UNCHANGED <<results, totalPlayers, totalPrizePool>>

\* useEffect(() => { loadGameResults() }): up to the first await
grmStart ==
    /\ screen = "results"
    /\ grmLoad.pc = "mounted"
    /\ grmLoading' = TRUE
    /\ grmLoad' = [grmLoad EXCEPT !.pc = "awaitGames"]
    /\ UNCHANGED <<screen, server, loadCap, tstVars, chartVars, dashVars, pdmVars, lbVars, pssVars, grmScheduleId, results,
                   totalPlayers, totalPrizePool>>

\* the parent renders the modal with another schedule after a call of
\* loadGameResults has ended: the effect on [schedule.id, tournamentId] calls
\* loadGameResults again, on the state the last call left
grmChangeSchedule(scheduleId) ==
    /\ screen = "results"
    /\ grmLoad.pc = "done"
    /\ scheduleId # grmScheduleId
    /\ grmScheduleId' = scheduleId
    /\ grmLoading' = TRUE
    /\ grmLoad' = [grmNoLocals EXCEPT !.pc = "awaitGames"]
    /\ UNCHANGED <<screen, server, loadCap, tstVars, chartVars, dashVars, pdmVars, lbVars,
                   pssVars, results, totalPlayers, totalPrizePool>>

\* getLiveGames(tournamentId) settles: without a game of the schedule the
\* function sets the empty results and returns
grmResolveGames ==
    /\ screen = "results"
    /\ grmLoad.pc = "awaitGames"
    /\ \E r \in Fetched(server.of[TournamentId].liveGames) :
        LET g == FindGame(r.value, grmScheduleId)
        IN  IF r.settled = "rejected" THEN grmCatch(grmLoad)
            ELSE IF g = 0
                 THEN /\ grmLoad' = [grmLoad EXCEPT !.pc = "done", !.outcome = "nogame",
                                                    !.liveGames = r.value]
                      /\ results' = <<>>
                      /\ grmLoading' = FALSE
                      /\ UNCHANGED <<totalPlayers, totalPrizePool>>
                 ELSE /\ grmLoad' = [grmLoad EXCEPT !.pc = "awaitAll",
                                                    !.liveGames = r.value,
                                                    !.game = r.value[g]]
                      /\ UNCHANGED <<results, totalPlayers, totalPrizePool, grmLoading>>
    /\ UNCHANGED <<screen, server, loadCap, tstVars, chartVars, dashVars, pdmVars, lbVars, pssVars, grmScheduleId>>

\* the Promise.all of loadGameResults settles
grmResolveAll ==
    /\ screen = "results"
    /\ grmLoad.pc = "awaitAll"
    /\ \E r1 \in Fetched(server.of[TournamentId].livePlayers),
          r2 \in Fetched(server.players),
          r3 \in Fetched(server.of[TournamentId].livePrizes),
          r4 \in Fetched(server.tournaments) :
        LET rs == <<r1, r2, r3, getTournaments(r4)>>
            l  == [grmLoad EXCEPT !.livePlayers = rs[1].value,
                                  !.players = rs[2].value,
                                  !.livePrizes = rs[3].value,
                                  !.tournaments = rs[4].value]
            t  == FindTournament(l.tournaments, TournamentId)
        IN  IF ~AllFulfilled(rs) THEN grmCatch(grmLoad)
            ELSE IF t # 0 /\ l.tournaments[t].pointsId # NoStr   \* tournament?.pointsId
                 THEN /\ grmLoad' = [l EXCEPT !.pc = "awaitLevels",
                                               !.pointsId = l.tournaments[t].pointsId]
                      /\ UNCHANGED <<results, totalPlayers, totalPrizePool, grmLoading>>
                 ELSE grmJoin(l, <<>>)
    /\ UNCHANGED <<screen, server, loadCap, tstVars, chartVars, dashVars, pdmVars, lbVars, pssVars, grmScheduleId>>

\* getPointLevels(tournament.pointsId) settles
grmResolveLevels ==
    /\ screen = "results"
    /\ grmLoad.pc = "awaitLevels"
    /\ \E res \in Fetched(server.pointLevels[grmLoad.pointsId]) :
            IF res.settled = "rejected" THEN grmCatch(grmLoad)
            ELSE grmJoin(grmLoad, res.value)
    /\ UNCHANGED <<screen, server, loadCap, tstVars, chartVars, dashVars, pdmVars, lbVars, pssVars, grmScheduleId>>

---------------------------------------------------------------------------
(* Leaderboard.loadLeaderboard *)

\* the most loads a behaviour starts on one component when loads overlap
MaxLoads == 2

\* a / b of JavaScript numbers, kept as the fraction
Div(a, b) == <<a, b>>

Zero == <<0, 1>>

AveragePoints_unguarded(tp) == Div(tp.totalPoints, tp.gamesPlayed)

\* (gamesPlayed && totalPoints && gamesPlayed > 0) ? totalPoints / gamesPlayed : 0
AveragePoints(tp) ==
    IF Truthy(tp.gamesPlayed) /\ Truthy(tp.totalPoints) /\ tp.gamesPlayed > 0
    THEN Div(tp.totalPoints, tp.gamesPlayed)
    ELSE Zero

PlayerOrPlaceholder_absent(playerMap, playerId) ==
    IF MapHas(playerMap, playerId) THEN playerMap[playerId]
    ELSE [id |-> NoStr, orgId |-> NoStr, firstName |-> NoStr, lastName |-> NoStr]

\* playerMap.get(tp.playerId) || { id: tp.playerId, orgId: '', firstName: 'Unknown', lastName: 'Player' }
PlayerOrPlaceholder(playerMap, playerId) ==
    IF MapHas(playerMap, playerId) THEN playerMap[playerId]
    ELSE [id |-> playerId, orgId |-> NoStr, firstName |-> "Unknown", lastName |-> "Player"]

\* the object the .map callback of loadLeaderboard returns for standing tp at
\* index (1-based here)
LeaderboardEntry(tp, index, playerMap) ==
    [tournamentId   |-> tp.tournamentId,
     playerId       |-> tp.playerId,
     earnings       |-> tp.earnings,
     totalEliminated |-> tp.totalEliminated,
     rank           |-> index,
     totalPoints    |-> OrZero(tp.totalPoints),
     gamesPlayed    |-> OrZero(tp.gamesPlayed),
     totalWinnings  |-> OrZero(tp.earnings),
     totalKnockouts |-> OrZero(tp.totalEliminated),
     totalBounties  |-> OrZero(tp.totalBounties),
     averagePoints  |-> AveragePoints(tp),
     player         |-> PlayerOrPlaceholder(playerMap, tp.playerId)]

\* entries of loadLeaderboard
LeaderboardEntries(tournamentPlayers, playerMap) ==
    [i \in DOMAIN tournamentPlayers |->
        LeaderboardEntry(tournamentPlayers[i], i, playerMap)]

\* type LeaderboardView
LeaderboardView == {"points", "winnings", "knockouts", "bounties"}

\* the metric the comparator of getSortedLeaderboard reads in view v: (x || 0)
ViewMetric(entry, v) ==
    CASE v = "points"    -> OrZero(entry.totalPoints)
      [] v = "winnings"  -> OrZero(entry.totalWinnings)
      [] v = "knockouts" -> OrZero(entry.totalKnockouts)
      [] v = "bounties"  -> OrZero(entry.totalBounties)

\* sorted.sort((a, b) => metric(b) - metric(a)): ascending by the negated metric
SortByView(arr, v) ==
    IF v \in LeaderboardView
    THEN ArraySort(arr, [i \in DOMAIN arr |-> 0 - ViewMetric(arr[i], v)])
    ELSE arr

getSortedLeaderboard_inPlace(lb, v) ==
    [sorted |-> SortByView(lb, v), leaderboard |-> SortByView(lb, v)]

\* getSortedLeaderboard(): the array it returns, and the leaderboard state its
\* copy [...leaderboard] leaves as it was
getSortedLeaderboard(lb, v) ==
    [sorted |-> SortByView(lb, v), leaderboard |-> lb]

RankShown_stored(entry, index) == entry.rank

\* the number in the Rank column of the row of sortedData.map((entry, index) => ...)
RankShown(entry, index) == index + 1

\* the render of the Leaderboard with state lb, v, isLoading: the spinner
\* returns before getSortedLeaderboard is called
lbRender(lb, v, isLoading) ==
    IF isLoading
    THEN /\ sortedData' = <<>>
         /\ leaderboard' = lb
    ELSE LET r == getSortedLeaderboard(lb, v)
         IN  /\ sortedData' = r.sorted
             /\ leaderboard' = r.leaderboard

\* a loadLeaderboard call at its await, for the tournamentId of its render
lbNewLoad(tournamentId) ==
    [pc |-> "awaitAll", outcome |-> "none", tournamentId |-> tournamentId,
     fetched |-> <<>>, tournamentPlayers |-> <<>>, allPlayers |-> <<>>,
     entries |-> <<>>]

\* useEffect(() => { loadLeaderboard() }, [tournamentId]) on mount
lbMount ==
    /\ screen = "leaderboard"
    /\ lbLoads = <<>>
    /\ lbLoading' = TRUE
    /\ lbLoads' = <<lbNewLoad(lbTournamentId)>>
    /\ lbRender(leaderboard, view, TRUE)
    /\ UNCHANGED <<screen, server, loadCap, tstVars, chartVars, dashVars, pdmVars, grmVars, pssVars, lbTournamentId,
                   lbPlayers, view>>

\* the Dashboard renders the Leaderboard with another tournamentId: the effect
\* runs loadLeaderboard again
lbChangeTournament(t) ==
    /\ screen = "leaderboard"
    /\ lbLoads # <<>>
    /\ Len(lbLoads) < loadCap
    /\ t # lbTournamentId
    /\ lbTournamentId' = t
    /\ lbLoading' = TRUE
    /\ lbLoads' = Append(lbLoads, lbNewLoad(t))
    /\ lbRender(leaderboard, view, TRUE)
    /\ UNCHANGED <<screen, server, loadCap, tstVars, chartVars, dashVars, pdmVars, grmVars, pssVars, lbPlayers, view>>

\* the Promise.all of call n of loadLeaderboard settles
lbResolve(n) ==
    /\ screen = "leaderboard"
    /\ lbLoads[n].pc = "awaitAll"
    /\ \E resp1 \in Responses(server.of[lbLoads[n].tournamentId].tournamentPlayers),
          resp2 \in Responses(server.players) :
        LET rs == <<fetchAPI(resp1), fetchAPI(resp2)>>
            l  == [lbLoads[n] EXCEPT !.fetched = <<resp1.kind = "ok", resp2.kind = "ok">>]
        IN  IF ~AllFulfilled(rs)
            THEN /\ lbLoads' = [lbLoads EXCEPT ![n] =
                                  [l EXCEPT !.pc = "done", !.outcome = "caught"]]
                 /\ lbLoading' = FALSE
                 /\ lbRender(leaderboard, view, FALSE)
                 /\ UNCHANGED lbPlayers
            ELSE LET playerMap == PlayerMap(rs[2].value)
                     entries == LeaderboardEntries(rs[1].value, playerMap)
                 IN  /\ lbLoads' = [lbLoads EXCEPT ![n] =
                                      [l EXCEPT !.pc = "done", !.outcome = "set",
                                                !.tournamentPlayers = rs[1].value,
                                                !.allPlayers = rs[2].value,
                                                !.entries = entries]]
                     /\ lbPlayers' = playerMap
                     /\ lbLoading' = FALSE
                     /\ lbRender(entries, view, FALSE)
    /\ UNCHANGED <<screen, server, loadCap, tstVars, chartVars, dashVars, pdmVars, grmVars, pssVars, lbTournamentId,
                   view>>

\* onClick={() => setView(tab.view)} of a tab of the rendered leaderboard
lbSetView(v) ==
    /\ screen = "leaderboard"
    /\ lbLoads # <<>>
    /\ ~lbLoading
    /\ v # view
    /\ view' = v
    /\ lbRender(leaderboard, v, lbLoading)
    /\ UNCHANGED <<screen, server, loadCap, tstVars, chartVars, dashVars, pdmVars, grmVars, pssVars, lbTournamentId,
                   lbLoads, lbPlayers, lbLoading>>

---------------------------------------------------------------------------
(* PlayerStatsScreen.loadPlayers and loadPlayerStatistics *)

\* tournamentPlayers.find(tp => tp.playerId === player.id): its index, 0 when none
FindStanding(tournamentPlayers, playerId) ==
    IF \E i \in DOMAIN tournamentPlayers : tournamentPlayers[i].playerId = playerId
    THEN CHOOSE i \in DOMAIN tournamentPlayers :
            /\ tournamentPlayers[i].playerId = playerId
            /\ \A j \in 1..(i - 1) : tournamentPlayers[j].playerId # playerId
    ELSE 0

\* the object the .map callback of loadPlayerStatistics returns for row pg:
\* points and prizeMoney are the row's own fields
StatsHistoryEntry(pg, gameMap, scheduleMap) ==
    [gameDate   |-> GameDateOf(pg, gameMap, scheduleMap),
     gameNumber |-> GameNumberOf(pg, gameMap, scheduleMap),
     position   |-> pg.placed,
     points     |-> pg.points,
     prizeMoney |-> pg.prizeMoney,
     knockouts  |-> pg.knockouts,
     bounties   |-> pg.bounties]

\* .filter(h => h.gameDate && h.position)
StatsHistoryKeep(mapped) ==
    {i \in DOMAIN mapped : mapped[i].gameDate # NoStr /\ Truthy(mapped[i].position)}

\* gameHistory of one tournament in loadPlayerStatistics
StatsHistory(playerId, f) ==
    LET playerGames == ArrayFilter(f.livePlayers,
                          {i \in DOMAIN f.livePlayers : f.livePlayers[i].playerId = playerId})
        gameMap == GameMap(f.liveGames)
        scheduleMap == ScheduleMap(f.schedules)
        mapped == [i \in DOMAIN playerGames |->
                     StatsHistoryEntry(playerGames[i], gameMap, scheduleMap)]
    IN  SortByDate(ArrayFilter(mapped, StatsHistoryKeep(mapped)))

\* gameHistory.filter(g => g.position).map(g => g.position!)
PositionsOf(history) ==
    LET kept == ArrayFilter(history, {i \in DOMAIN history : Truthy(history[i].position)})
    IN  [i \in DOMAIN kept |-> kept[i].position]

SeqMin(xs) == CHOOSE x \in {xs[i] : i \in DOMAIN xs} : \A i \in DOMAIN xs : x <= xs[i]

SeqMax(xs) == CHOOSE x \in {xs[i] : i \in DOMAIN xs} : \A i \in DOMAIN xs : x >= xs[i]

BestPosition_max(positions) == IF Len(positions) > 0 THEN SeqMax(positions) ELSE 0

\* positions.length > 0 ? Math.min(...positions) : 0
BestPosition(positions) == IF Len(positions) > 0 THEN SeqMin(positions) ELSE 0

\* the TournamentPlayerStats of one tournament, given the player's standing
TournamentStats(tournament, playerInTournament, history) ==
    [tournament     |-> tournament,
     gamesPlayed    |-> OrZero(playerInTournament.gamesPlayed),
     totalPoints    |-> OrZero(playerInTournament.totalPoints),
     totalWinnings  |-> OrZero(playerInTournament.earnings),
     totalKnockouts |-> OrZero(playerInTournament.totalEliminated),
     totalBounties  |-> OrZero(playerInTournament.totalBounties),
     averagePoints  |-> AveragePoints(playerInTournament),
     bestPosition   |-> BestPosition(PositionsOf(history)),
     gameHistory    |-> history]

RECURSIVE TournamentDetails(_, _, _, _)
\* (await Promise.all(tournamentStatsPromises)).filter(stats => stats !== null)
\* over the first n tournaments
TournamentDetails(playerId, ts, fetched, n) ==
    IF n = 0 THEN <<>>
    ELSE LET rest == TournamentDetails(playerId, ts, fetched, n - 1)
             i == FindStanding(fetched[n].tournamentPlayers, playerId)
         IN  IF i = 0 THEN rest
             ELSE Append(rest, TournamentStats(ts[n],
                                   fetched[n].tournamentPlayers[i],
                                   StatsHistory(playerId, fetched[n])))

RECURSIVE Sum(_, _)
\* xs.reduce((sum, x) => sum + x, 0) over the first n
Sum(xs, n) == IF n = 0 THEN 0 ELSE Sum(xs, n - 1) + xs[n]

AllHistory_last(details, n) == IF n = 0 THEN <<>> ELSE details[n].gameHistory

RECURSIVE AllHistory(_, _)
\* tournamentDetails.flatMap(t => t.gameHistory) over the first n
AllHistory(details, n) ==
    IF n = 0 THEN <<>> ELSE AllHistory(details, n - 1) \o details[n].gameHistory

\* the PlayerStatistics loadPlayerStatistics builds
OverallStats(player, details) ==
    LET totalGamesPlayed == Sum([i \in DOMAIN details |-> details[i].gamesPlayed], Len(details))
        totalPoints == Sum([i \in DOMAIN details |-> details[i].totalPoints], Len(details))
        allPositions == PositionsOf(AllHistory(details, Len(details)))
    IN  [player           |-> player,
         totalGamesPlayed |-> totalGamesPlayed,
         totalPoints      |-> totalPoints,
         totalWinnings    |-> Sum([i \in DOMAIN details |-> details[i].totalWinnings], Len(details)),
         totalKnockouts   |-> Sum([i \in DOMAIN details |-> details[i].totalKnockouts], Len(details)),
         totalBounties    |-> Sum([i \in DOMAIN details |-> details[i].totalBounties], Len(details)),
         averagePoints    |-> IF totalGamesPlayed > 0 THEN Div(totalPoints, totalGamesPlayed)
                              ELSE Zero,
         averagePosition  |-> IF Len(allPositions) > 0
                              THEN Div(Sum(allPositions, Len(allPositions)), Len(allPositions))
                              ELSE Zero,
         bestPosition     |-> IF Len(allPositions) > 0 THEN SeqMin(allPositions) ELSE 0,
         worstPosition    |-> IF Len(allPositions) > 0 THEN SeqMax(allPositions) ELSE 0,
         tournamentsParticipated |-> Len(details),
         tournamentDetails |-> details]

\* the ways the four fetches of one tournament's Promise.all can settle
DetailsFetched(t) ==
    { [ok |-> AllFulfilled(<<a, b, c, d>>),
       tournamentPlayers |-> a.value, livePlayers |-> b.value, liveGames |-> c.value,
       schedules |-> getTournamentSchedule(d, t).value] :
        a \in Fetched(server.of[t].tournamentPlayers),
        b \in Fetched(server.of[t].livePlayers),
        c \in Fetched(server.of[t].liveGames),
        d \in Fetched(server.schedules) }

\* useEffect(() => { loadPlayers() }, []): up to its await
pssMount ==
    /\ screen = "stats"
    /\ pssPlayersPc = "mounted"
    /\ loading' = TRUE
    /\ pssPlayersPc' = "await"
    /\ UNCHANGED <<screen, server, loadCap, tstVars, chartVars, dashVars, pdmVars, grmVars, lbVars, players,
                   selectedPlayer, playerStats, statsLoading, pssLoads>>

\* getPlayers() settles
pssResolvePlayers ==
    /\ screen = "stats"
    /\ pssPlayersPc = "await"
    /\ \E r \in Fetched(server.players) :
          players' = IF r.settled = "rejected" THEN players ELSE r.value
    /\ loading' = FALSE
    /\ pssPlayersPc' = "done"
    /\ UNCHANGED <<screen, server, loadCap, tstVars, chartVars, dashVars, pdmVars, grmVars, lbVars,
                   selectedPlayer, playerStats, statsLoading, pssLoads>>

\* a click on a player of the list: setSelectedPlayer(player), and the effect
\* runs loadPlayerStatistics(player) up to its first await
pssSelectPlayer(i) ==
    /\ screen = "stats"
    /\ ~loading
    /\ Len(pssLoads) < loadCap
    /\ selectedPlayer # <<players[i]>>
    /\ selectedPlayer' = <<players[i]>>
    /\ statsLoading' = TRUE
    /\ pssLoads' = Append(pssLoads,
            [pc |-> "awaitTournaments", outcome |-> "none", player |-> players[i],
             tournaments |-> <<>>, fetched |-> <<>>, stats |-> <<>>])
    /\ UNCHANGED <<screen, server, loadCap, tstVars, chartVars, dashVars, pdmVars, grmVars, lbVars, players,
                   playerStats, loading, pssPlayersPc>>

\* the catch and finally blocks of call n of loadPlayerStatistics
pssCatch(n) ==
    /\ pssLoads' = [pssLoads EXCEPT ![n].pc = "done", ![n].outcome = "caught"]
    /\ statsLoading' = FALSE
    /\ UNCHANGED playerStats

\* getTournaments() of call n settles; the per-tournament fetches are issued
pssResolveTournaments(n) ==
    /\ screen = "stats"
    /\ pssLoads[n].pc = "awaitTournaments"
    /\ \E r \in Fetched(server.tournaments) :
          IF r.settled = "rejected" THEN pssCatch(n)
          ELSE /\ pssLoads' = [pssLoads EXCEPT ![n].pc = "awaitDetails",
                                               ![n].tournaments = getTournaments(r).value]
               /\ UNCHANGED <<playerStats, statsLoading>>
    /\ UNCHANGED <<screen, server, loadCap, tstVars, chartVars, dashVars, pdmVars, grmVars, lbVars, players,
                   selectedPlayer, loading, pssPlayersPc>>

\* Promise.all(tournamentStatsPromises) of call n settles: the statistics are
\* built and set, and the finally block runs
pssResolveDetails(n) ==
    /\ screen = "stats"
    /\ pssLoads[n].pc = "awaitDetails"
    /\ LET ts == pssLoads[n].tournaments
       IN  \E f \in [DOMAIN ts -> UNION {DetailsFetched(ts[i].id) : i \in DOMAIN ts}] :
             /\ \A i \in DOMAIN ts : f[i] \in DetailsFetched(ts[i].id)
             /\ IF \E i \in DOMAIN ts : ~f[i].ok THEN pssCatch(n)
                ELSE LET stats == OverallStats(pssLoads[n].player,
                                     TournamentDetails(pssLoads[n].player.id, ts, f, Len(ts)))
                     IN  /\ pssLoads' = [pssLoads EXCEPT ![n].pc = "done",
                                                         ![n].outcome = "set",
                                                         ![n].fetched = f,
                                                         ![n].stats = <<stats>>]
                         /\ playerStats' = <<stats>>
                         /\ statsLoading' = FALSE
    /\ UNCHANGED <<screen, server, loadCap, tstVars, chartVars, dashVars, pdmVars, grmVars, lbVars, players,
                   selectedPlayer, loading, pssPlayersPc>>

---------------------------------------------------------------------------
(* Dashboard: loadTournaments, loadTournamentDetails, handleRefresh *)

\* PokerLeagueAPI.getGameConfigurationById, given how its fetchAPI settled:
\* configs[0] || null, as <<config>> or <<>>
getGameConfigurationById(r) ==
    IF r.settled = "rejected" THEN r
    ELSE [r EXCEPT !.value = IF Len(r.value) > 0 THEN <<r.value[1]>> ELSE <<>>]

\* new Date(s) followed by setHours(0, 0, 0, 0), as a local day: the date
\* strings of the data are UTC midnights, which fall on the previous local day
\* where local time is behind UTC
StartOfDay(s) == IF now.west THEN getTime(s) - 1 ELSE getTime(s)

\* schedule.find(s => ...): the first entry with a date whose day is today or
\* later, as <<entry>> or <<>>
Upcoming(schedule) ==
    LET ok == {i \in DOMAIN schedule :
                 schedule[i].date # NoStr /\ StartOfDay(schedule[i].date) >= now.day}
    IN  IF ok = {} THEN <<>>
        ELSE <<schedule[CHOOSE i \in ok : \A j \in ok : i <= j]>>

MaxRefresh == 2

\* a call of loadTournamentDetails(tournament) up to its first await, made by
\* the effect or by handleRefresh
dashNewLoad(tournament, by) ==
    [pc |-> "awaitSchedule", tournament |-> tournament, by |-> by, gameId |-> NoStr]

\* the calls of loadTournamentDetails still to be made by a refresh in flight
dashOwed ==
    IF refresh.pc = "awaitTournaments" THEN 2 ELSE 0

dashReturn_any(n, loads) ==
    /\ dashLoads' = SubSeq(loads, 1, n - 1) \o SubSeq(loads, n + 1, Len(loads))
    /\ refreshKey' = refreshKey + 1
    /\ refreshing' = FALSE
    /\ refresh' = [refresh EXCEPT !.pc = "idle"]

\* call n of loadTournamentDetails returns and leaves the calls in flight;
\* handleRefresh, when it awaited this call, goes on to
\* setRefreshKey(prev => prev + 1) and its finally block
dashReturn(n, loads) ==
    /\ dashLoads' = SubSeq(loads, 1, n - 1) \o SubSeq(loads, n + 1, Len(loads))
    /\ IF loads[n].by = "handleRefresh"
       THEN /\ refreshKey' = refreshKey + 1
            /\ refreshing' = FALSE
            /\ refresh' = [refresh EXCEPT !.pc = "idle"]
       ELSE UNCHANGED <<refreshKey, refreshing, refresh>>

\* the rest of call n of loadTournamentDetails from "Load points structure" on
dashPointsStep(n, loads) ==
    IF loads[n].tournament.pointsId # NoStr
    THEN /\ dashLoads' = [loads EXCEPT ![n].pc = "awaitLevels"]
         /\ UNCHANGED <<refreshKey, refreshing, refresh>>
    ELSE dashReturn(n, loads)

\* useEffect(() => { loadTournaments() }, []): up to its await
dashMount ==
    /\ screen = "dashboard"
    /\ dashListPc = "mounted"
    /\ dashListPc' = "await"
    /\ UNCHANGED <<screen, server, loadCap, tstVars, chartVars, pdmVars, grmVars, lbVars, pssVars, now,
                   dashTournaments, selectedTournament, nextGame, gameConfig, dashPointLevels,
                   dashLoading, refreshKey, refreshing, refresh, dashLoads>>

TournamentsLoaded_keep(r) ==
    LET data == getTournaments(r).value
        selects == r.settled # "rejected" /\ Len(data) > 0 /\ selectedTournament = <<>>
    IN  [tournaments |-> IF r.settled = "rejected" THEN dashTournaments ELSE data,
         selectedTournament |-> IF selects THEN <<data[1]>> ELSE selectedTournament,
         started |-> IF selects THEN <<dashNewLoad(data[1], "effect")>> ELSE <<>>]

\* the body of loadTournaments after its await, for the settled fetch r: the
\* list and the selection it sets, and the call of loadTournamentDetails that
\* the effect on selectedTournament starts for data[0]
TournamentsLoaded(r) ==
    LET data == getTournaments(r).value
        selects == r.settled # "rejected" /\ Len(data) > 0
    IN  [tournaments |-> IF r.settled = "rejected" THEN dashTournaments ELSE data,
         selectedTournament |-> IF selects THEN <<data[1]>> ELSE selectedTournament,
         started |-> IF selects THEN <<dashNewLoad(data[1], "effect")>> ELSE <<>>]

\* getTournaments() of the mount effect's loadTournaments settles
dashResolveTournaments ==
    /\ screen = "dashboard"
    /\ dashListPc = "await"
    /\ dashListPc' = "done"
    /\ \E r \in Fetched(server.tournaments) :
          LET u == TournamentsLoaded(r)
          IN  /\ dashTournaments' = u.tournaments
              /\ selectedTournament' = u.selectedTournament
              /\ dashLoads' = dashLoads \o u.started
              /\ nextGame' = IF u.started # <<>> THEN <<>> ELSE nextGame
              /\ gameConfig' = IF u.started # <<>> THEN <<>> ELSE gameConfig
    /\ dashLoading' = FALSE
    /\ UNCHANGED <<screen, server, loadCap, tstVars, chartVars, pdmVars, grmVars, lbVars, pssVars, now,
                   dashPointLevels, refreshKey, refreshing, refresh>>

\* a click on a tournament of the sidebar: setSelectedTournament(tournament),
\* and the effect starts loadTournamentDetails(tournament)
dashSelectTournament(i) ==
    /\ screen = "dashboard"
    /\ ~dashLoading
    /\ Len(dashLoads) + dashOwed < loadCap
    /\ selectedTournament # <<dashTournaments[i]>>
    /\ selectedTournament' = <<dashTournaments[i]>>
    /\ nextGame' = <<>>
    /\ gameConfig' = <<>>
    /\ dashLoads' = Append(dashLoads, dashNewLoad(dashTournaments[i], "effect"))
    /\ UNCHANGED <<screen, server, loadCap, tstVars, chartVars, pdmVars, grmVars, lbVars, pssVars, now,
                   dashTournaments, dashPointLevels, dashLoading, refreshKey, refreshing,
                   dashListPc, refresh>>

\* a click on the refresh button, enabled while refreshing is false:
\* handleRefresh up to the await inside loadTournaments
dashClickRefresh ==
    /\ screen = "dashboard"
    /\ ~dashLoading
    /\ ~refreshing
    /\ Len(dashLoads) + 2 <= loadCap
    /\ refreshKey < MaxRefresh
    /\ refreshing' = TRUE
    /\ refresh' = [pc |-> "awaitTournaments", selectedTournament |-> selectedTournament]
    /\ UNCHANGED <<screen, server, loadCap, tstVars, chartVars, pdmVars, grmVars, lbVars, pssVars, now,
                   dashTournaments, selectedTournament, nextGame, gameConfig, dashPointLevels,
                   dashLoading, refreshKey, dashListPc, dashLoads>>

\* getTournaments() of handleRefresh's loadTournaments settles; handleRefresh
\* then calls loadTournamentDetails with the selectedTournament it captured,
\* or, with none captured, increments refreshKey and ends
dashRefreshTournaments ==
    /\ screen = "dashboard"
    /\ refresh.pc = "awaitTournaments"
    /\ \E r \in Fetched(server.tournaments) :
          LET u == TournamentsLoaded(r)
              own == IF refresh.selectedTournament # <<>>
                     THEN <<dashNewLoad(refresh.selectedTournament[1], "handleRefresh")>>
                     ELSE <<>>
          IN  /\ dashTournaments' = u.tournaments
              /\ selectedTournament' = u.selectedTournament
              /\ dashLoads' = dashLoads \o u.started \o own
              /\ nextGame' = IF u.started \o own # <<>> THEN <<>> ELSE nextGame
              /\ gameConfig' = IF u.started \o own # <<>> THEN <<>> ELSE gameConfig
              /\ IF own # <<>>
                 THEN /\ refresh' = [refresh EXCEPT !.pc = "awaitDetails"]
                      /\ UNCHANGED <<refreshKey, refreshing>>
                 ELSE /\ refreshKey' = refreshKey + 1
                      /\ refreshing' = FALSE
                      /\ refresh' = [refresh EXCEPT !.pc = "idle"]
    /\ dashLoading' = FALSE
    /\ UNCHANGED <<screen, server, loadCap, tstVars, chartVars, pdmVars, grmVars, lbVars, pssVars, now,
                   dashPointLevels, dashListPc>>

\* getTournamentSchedule(tournament.id) of call n of loadTournamentDetails
\* settles: the upcoming game is looked up and set
dashResolveSchedule(n) ==
    /\ screen = "dashboard"
    /\ dashLoads[n].pc = "awaitSchedule"
    /\ \E r \in Fetched(server.schedules) :
          LET fetched == getTournamentSchedule(r, dashLoads[n].tournament.id)
              upcoming == Upcoming(fetched.value)
          IN  IF fetched.settled = "rejected"
              THEN /\ dashReturn(n, dashLoads)
                   /\ UNCHANGED nextGame
              ELSE IF upcoming = <<>>
              THEN /\ dashPointsStep(n, dashLoads)
                   /\ UNCHANGED nextGame
              ELSE /\ nextGame' = upcoming
                   /\ IF upcoming[1].gameId # NoStr
                      THEN /\ dashLoads' = [dashLoads EXCEPT
                                              ![n].pc = "awaitConfig",
                                              ![n].gameId = upcoming[1].gameId]
                           /\ UNCHANGED <<refreshKey, refreshing, refresh>>
                      ELSE dashPointsStep(n, dashLoads)
    /\ UNCHANGED <<screen, server, loadCap, tstVars, chartVars, pdmVars, grmVars, lbVars, pssVars, now,
                   dashTournaments, selectedTournament, gameConfig, dashPointLevels,
                   dashLoading, dashListPc>>

\* getGameConfigurationById(upcoming.gameId) of call n settles
dashResolveConfig(n) ==
    /\ screen = "dashboard"
    /\ dashLoads[n].pc = "awaitConfig"
    /\ \E r \in Fetched(server.gameConfigurations[dashLoads[n].gameId]) :
          LET config == getGameConfigurationById(r)
          IN  IF config.settled = "rejected"
              THEN /\ dashReturn(n, dashLoads)
                   /\ UNCHANGED gameConfig
              ELSE /\ gameConfig' = config.value
                   /\ dashPointsStep(n, dashLoads)
    /\ UNCHANGED <<screen, server, loadCap, tstVars, chartVars, pdmVars, grmVars, lbVars, pssVars, now,
                   dashTournaments, selectedTournament, nextGame, dashPointLevels,
                   dashLoading, dashListPc>>

\* getPointLevels(tournament.pointsId) of call n settles
dashResolveLevels(n) ==
    /\ screen = "dashboard"
    /\ dashLoads[n].pc = "awaitLevels"
    /\ \E r \in Fetched(server.pointLevels[dashLoads[n].tournament.pointsId]) :
          /\ dashPointLevels' = IF r.settled = "rejected" THEN dashPointLevels ELSE r.value
          /\ dashReturn(n, dashLoads)
    /\ UNCHANGED <<screen, server, loadCap, tstVars, chartVars, pdmVars, grmVars, lbVars, pssVars, now,
                   dashTournaments, selectedTournament, nextGame, gameConfig,
                   dashLoading, dashListPc>>

---------------------------------------------------------------------------
(* TournamentScheduleTable: loadSchedule, isGameCompleted, handleRowClick *)

RECURSIVE UniqueFrom(_, _)
\* [...new Set(xs.filter(Boolean))] from index i on: the values of xs that are
\* not empty, each at its first occurrence
UniqueFrom(xs, i) ==
    IF i > Len(xs) THEN <<>>
    ELSE IF xs[i] = NoStr \/ \E j \in 1..(i - 1) : xs[j] = xs[i]
         THEN UniqueFrom(xs, i + 1)
         ELSE <<xs[i]>> \o UniqueFrom(xs, i + 1)

\* new Date(s.date || 0).getTime(): a missing date is the epoch
DateOrEpoch(s) == IF s.date = NoStr THEN 0 ELSE getTime(s.date)

\* scheduleData.sort((a, b) => dateA.getTime() - dateB.getTime())
SortSchedule(scheduleData) ==
    ArraySort(scheduleData, [i \in DOMAIN scheduleData |-> DateOrEpoch(scheduleData[i])])

\* configs.forEach(config => { if (config) configMap.set(config.id, config) }),
\* each config being <<record>> or <<>>
ConfigMap(configs) ==
    LET found == ArrayFilter(configs, {i \in DOMAIN configs : configs[i] # <<>>})
    IN  MapFromEntries([i \in DOMAIN found |-> <<found[i][1].id, found[i][1]>>], Len(found))

isGameCompleted_byStatus(schedule) ==
    schedule.status = "COMPLETED" \/ (schedule.date # NoStr /\ getTime(schedule.date) < now.day)

\* isGameCompleted(schedule): new Date(schedule.date) is a UTC midnight, and
\* the start of the local today lies after the UTC midnight of today's date
\* where local time is behind UTC
isGameCompleted(schedule) ==
    IF schedule.date = NoStr THEN FALSE
    ELSE \/ IF now.west THEN getTime(schedule.date) <= now.day
                        ELSE getTime(schedule.date) < now.day
         \/ schedule.status = "COMPLETED"

\* a loadSchedule call at its first await, for the tournamentId of its render
tstNewLoad(tournamentId) ==
    [pc |-> "awaitSchedule", tournamentId |-> tournamentId, scheduleData |-> <<>>,
     uniqueGameIds |-> <<>>]

tstFinally_none(n, loads) ==
    /\ tstLoads' = [loads EXCEPT ![n].pc = "done"]
    /\ UNCHANGED tstLoading

\* the finally block of call n of loadSchedule
tstFinally(n, loads) ==
    /\ tstLoads' = [loads EXCEPT ![n].pc = "done"]
    /\ tstLoading' = FALSE

\* useEffect(() => { loadSchedule() }, [tournamentId]) on mount
tstMount ==
    /\ screen = "schedule"
    /\ tstLoads = <<>>
    /\ tstLoading' = TRUE
    /\ tstLoads' = <<tstNewLoad(tstTournamentId)>>
    /\ UNCHANGED <<screen, server, loadCap, chartVars, dashVars, pdmVars, grmVars, lbVars,
                   pssVars, tstTournamentId, tstSchedules, gameConfigs, selectedSchedule>>

\* the Dashboard renders the table with another tournamentId: the effect runs
\* loadSchedule again
tstChangeTournament(t) ==
    /\ screen = "schedule"
    /\ tstLoads # <<>>
    /\ Len(tstLoads) < loadCap
    /\ t # tstTournamentId
    /\ tstTournamentId' = t
    /\ tstLoading' = TRUE
    /\ tstLoads' = Append(tstLoads, tstNewLoad(t))
    /\ UNCHANGED <<screen, server, loadCap, chartVars, dashVars, pdmVars, grmVars, lbVars,
                   pssVars, tstSchedules, gameConfigs, selectedSchedule>>

\* getTournamentSchedule(tournamentId) of call n settles: the configuration
\* fetches are issued
tstResolveSchedule(n) ==
    /\ screen = "schedule"
    /\ tstLoads[n].pc = "awaitSchedule"
    /\ \E r \in Fetched(server.schedules) :
          LET fetched == getTournamentSchedule(r, tstLoads[n].tournamentId)
          IN  IF fetched.settled = "rejected"
              THEN tstFinally(n, tstLoads)
              ELSE /\ tstLoads' = [tstLoads EXCEPT
                        ![n].pc = "awaitConfigs",
                        ![n].scheduleData = fetched.value,
                        ![n].uniqueGameIds =
                            UniqueFrom([i \in DOMAIN fetched.value |-> fetched.value[i].gameId], 1)]
                   /\ UNCHANGED tstLoading
    /\ UNCHANGED <<screen, server, loadCap, chartVars, dashVars, pdmVars, grmVars, lbVars,
                   pssVars, tstTournamentId, tstSchedules, gameConfigs, selectedSchedule>>

\* Promise.all(configPromises) of call n settles: the map and the sorted
\* schedule are set, and the finally block runs
tstResolveConfigs(n) ==
    /\ screen = "schedule"
    /\ tstLoads[n].pc = "awaitConfigs"
    /\ LET ids == tstLoads[n].uniqueGameIds
       IN  \E rs \in [DOMAIN ids -> UNION {Fetched(server.gameConfigurations[ids[i]]) :
                                            i \in DOMAIN ids}] :
             /\ \A i \in DOMAIN ids : rs[i] \in Fetched(server.gameConfigurations[ids[i]])
             /\ LET configs == [i \in DOMAIN ids |-> getGameConfigurationById(rs[i])]
                IN  IF ~AllFulfilled(configs)
                    THEN /\ tstFinally(n, tstLoads)
                         /\ UNCHANGED <<tstSchedules, gameConfigs>>
                    ELSE /\ gameConfigs' = ConfigMap([i \in DOMAIN ids |-> configs[i].value])
                         /\ tstSchedules' = SortSchedule(tstLoads[n].scheduleData)
                         /\ tstFinally(n, tstLoads)
    /\ UNCHANGED <<screen, server, loadCap, chartVars, dashVars, pdmVars, grmVars, lbVars,
                   pssVars, tstTournamentId, selectedSchedule>>

\* onClick={() => handleRowClick(schedule)} of row i of the rendered table
handleRowClick(i) ==
    /\ screen = "schedule"
    /\ ~tstLoading
    /\ selectedSchedule' = IF isGameCompleted(tstSchedules[i]) THEN <<tstSchedules[i]>>
                           ELSE selectedSchedule
    /\ UNCHANGED <<screen, server, loadCap, chartVars, dashVars, pdmVars, grmVars, lbVars,
                   pssVars, tstTournamentId, tstLoads, tstSchedules, gameConfigs, tstLoading>>

\* onClose={() => setSelectedSchedule(null)} of the GameResultsModal
tstCloseResults ==
    /\ screen = "schedule"
    /\ selectedSchedule # <<>>
    /\ selectedSchedule' = <<>>
    /\ UNCHANGED <<screen, server, loadCap, chartVars, dashVars, pdmVars, grmVars, lbVars,
                   pssVars, tstTournamentId, tstLoads, tstSchedules, gameConfigs, tstLoading>>

---------------------------------------------------------------------------
(* TournamentChart.loadChartData *)

\* the object the .map callback of loadChartData returns for game
ChartEntry(game, scheduleMap) ==
    LET weekNum == IF game.scheduleId # NoStr /\ MapHas(scheduleMap, game.scheduleId)
                   THEN OrZero(scheduleMap[game.scheduleId].weekNum)
                   ELSE 0
    IN  [week |-> IF weekNum > 0 THEN "Week " \o ToString(weekNum) ELSE "Game",
         players |-> OrZero(game.numOfPlayers),
         weekNumber |-> weekNum]

\* data of loadChartData: one entry per game, sorted by week number
BuildChart(liveGames, schedules) ==
    LET mapped == [i \in DOMAIN liveGames |-> ChartEntry(liveGames[i], ScheduleMap(schedules))]
    IN  ArraySort(mapped, [i \in DOMAIN mapped |-> mapped[i].weekNumber])

\* useEffect(() => { loadChartData() }, [tournamentId]) on mount
chartMount ==
    /\ screen = "chart"
    /\ chartLoads = <<>>
    /\ chartLoading' = TRUE
    /\ chartLoads' = <<[pc |-> "awaitAll", tournamentId |-> chartTournamentId]>>
    /\ UNCHANGED <<screen, server, loadCap, tstVars, dashVars, pdmVars, grmVars, lbVars,
                   pssVars, chartTournamentId, chartData>>

\* the Dashboard renders the chart with another tournamentId
chartChangeTournament(t) ==
    /\ screen = "chart"
    /\ chartLoads # <<>>
    /\ Len(chartLoads) < loadCap
    /\ t # chartTournamentId
    /\ chartTournamentId' = t
    /\ chartLoading' = TRUE
    /\ chartLoads' = Append(chartLoads, [pc |-> "awaitAll", tournamentId |-> t])
    /\ UNCHANGED <<screen, server, loadCap, tstVars, dashVars, pdmVars, grmVars, lbVars,
                   pssVars, chartData>>

\* the Promise.all of call n of loadChartData settles
chartResolve(n) ==
    /\ screen = "chart"
    /\ chartLoads[n].pc = "awaitAll"
    /\ \E r1 \in Fetched(server.of[chartLoads[n].tournamentId].liveGames),
          r2 \in Fetched(server.schedules) :
        LET rs == <<r1, getTournamentSchedule(r2, chartLoads[n].tournamentId)>>
        IN  /\ chartData' = IF AllFulfilled(rs) THEN BuildChart(rs[1].value, rs[2].value)
                            ELSE chartData
            /\ chartLoads' = [chartLoads EXCEPT ![n].pc = "done"]
            /\ chartLoading' = FALSE
    /\ UNCHANGED <<screen, server, loadCap, tstVars, dashVars, pdmVars, grmVars, lbVars,
                   pssVars, chartTournamentId>>

---------------------------------------------------------------------------
(* Specifications *)

\* TournamentScheduleTable before it is mounted
tstUnmounted ==
    /\ tstTournamentId = NoStr
    /\ tstLoads = <<>>
    /\ tstSchedules = <<>>
    /\ gameConfigs = <<>>
    /\ tstLoading = TRUE
    /\ selectedSchedule = <<>>

\* TournamentChart before it is mounted
chartUnmounted ==
    /\ chartTournamentId = NoStr
    /\ chartLoads = <<>>
    /\ chartData = <<>>
    /\ chartLoading = TRUE

\* GameResultsModal before it is mounted
grmUnmounted ==
    /\ grmScheduleId = NoStr
    /\ grmLoad = grmNoLocals
    /\ results = <<>>
    /\ totalPlayers = 0
    /\ totalPrizePool = 0
    /\ grmLoading = TRUE

\* PlayerDetailModal before it is mounted
pdmUnmounted ==
    /\ pdmPlayerId = NoStr
    /\ pdmLoad = NoLocals
    /\ gameHistory = <<>>
    /\ pdmLoading = TRUE

\* Leaderboard before it is mounted
lbUnmounted ==
    /\ lbTournamentId = NoStr
    /\ lbLoads = <<>>
    /\ leaderboard = <<>>
    /\ lbPlayers = <<>>
    /\ lbLoading = TRUE
    /\ view = "points"
    /\ sortedData = <<>>

\* the state of the Dashboard before its first render, the clock apart
dashNoState ==
    /\ dashTournaments = <<>>
    /\ selectedTournament = <<>>
    /\ nextGame = <<>>
    /\ gameConfig = <<>>
    /\ dashPointLevels = <<>>
    /\ dashLoading = TRUE
    /\ refreshKey = 0
    /\ refreshing = FALSE
    /\ dashListPc = "mounted"
    /\ refresh = [pc |-> "idle", selectedTournament |-> <<>>]
    /\ dashLoads = <<>>

\* the Dashboard before it is mounted
dashUnmounted ==
    /\ now = [day |-> 12, west |-> FALSE]
    /\ dashNoState

\* PlayerStatsScreen before it is mounted
pssUnmounted ==
    /\ players = <<>>
    /\ selectedPlayer = <<>>
    /\ playerStats = <<>>
    /\ loading = TRUE
    /\ statsLoading = FALSE
    /\ pssPlayersPc = "mounted"
    /\ pssLoads = <<>>

\* the servers the Leaderboard of the Dashboard is rendered against
BoardServers ==
    { [tournaments |-> <<>>, players |-> pl, schedules |-> <<>>,
       pointLevels |-> [p \in {"P1", "P2"} |-> <<>>],
       of |-> [t \in {"T1", "T2"} |->
                 [NoRecords EXCEPT !.tournamentPlayers = IF t = "T1" THEN s1 ELSE s2]]] :
        pl \in PlayerLists, s1 \in StandingLists("T1"), s2 \in StandingLists("T2") }

InitLeaderboard ==
    /\ screen = "leaderboard"
    /\ server \in BoardServers
    /\ loadCap = MaxLoads
    /\ lbTournamentId = "T1"
    /\ lbLoads = <<>>
    /\ leaderboard = <<>>
    /\ lbPlayers = <<>>
    /\ lbLoading = TRUE
    /\ view = "points"
    /\ sortedData = <<>>
    /\ pdmUnmounted
    /\ grmUnmounted
    /\ pssUnmounted
    /\ tstUnmounted
    /\ chartUnmounted
    /\ dashUnmounted

NextLeaderboard ==
    \/ lbMount
    \/ \E t \in {"T1", "T2"} : lbChangeTournament(t)
    \/ \E n \in DOMAIN lbLoads : lbResolve(n)
    \/ \E v \in LeaderboardView : lbSetView(v)

\* the Leaderboard, re-rendered with other tournaments while it loads
SpecLeaderboard == InitLeaderboard /\ [][NextLeaderboard]_vars

\* the servers the statistics of one selection are computed against
StatsServers ==
    { [tournaments |-> ts, players |-> <<Person("p1", "Ann", "Lee")>>, schedules |-> ss,
       pointLevels |-> [p \in {"P1", "P2"} |-> <<>>],
       of |-> [t \in {"T1", "T2"} |->
                 IF t = "T1"
                 THEN [NoRecords EXCEPT !.tournamentPlayers = sl,
                                        !.livePlayers = rows, !.liveGames = gs]
                 ELSE [NoRecords EXCEPT !.tournamentPlayers = s2,
                                        !.livePlayers = <<Row("p1", "G", 2, 1, 1)>>,
                                        !.liveGames = gs]]] :
        ts \in TournamentLists, ss \in ScheduleLists,
        sl \in StandingLists("T1"), s2 \in StandingLists("T2"),
        rows \in StatsRowLists, gs \in GameLists }

\* the servers against which selections follow each other while loads run
SelectionServers ==
    { [tournaments |-> <<Tour("T1", ORG_ID, "P1")>>,
       players |-> <<Person("p1", "Ann", "Lee"), Person("p2", "Bob", "Ray")>>,
       schedules |-> <<>>,
       pointLevels |-> [p \in {"P1", "P2"} |-> <<>>],
       of |-> [t \in {"T1", "T2"} |->
                 IF t = "T1" THEN [NoRecords EXCEPT !.tournamentPlayers = sl]
                 ELSE NoRecords]] :
        sl \in StandingLists("T1") }

InitStats ==
    /\ screen = "stats"
    /\ \/ loadCap = 1 /\ server \in StatsServers
       \/ loadCap = MaxLoads /\ server \in SelectionServers
    /\ pssUnmounted
    /\ tstUnmounted
    /\ chartUnmounted
    /\ pdmUnmounted
    /\ grmUnmounted
    /\ lbUnmounted
    /\ dashUnmounted

NextStats ==
    \/ pssMount
    \/ pssResolvePlayers
    \/ \E i \in DOMAIN players : pssSelectPlayer(i)
    \/ \E n \in DOMAIN pssLoads : pssResolveTournaments(n)
    \/ \E n \in DOMAIN pssLoads : pssResolveDetails(n)

\* PlayerStatsScreen: one selection against rich data, or overlapping
\* selections against little data
SpecStats == InitStats /\ [][NextStats]_vars

InitHistory ==
    /\ screen = "history"
    /\ server \in {sv \in ModalServers({<<>>}) : sv.schedules # <<>>}
    /\ loadCap = 1
    /\ pdmPlayerId = "p1"
    /\ pdmLoad = NoLocals
    /\ gameHistory = <<>>
    /\ pdmLoading = TRUE
    /\ grmUnmounted
    /\ lbUnmounted
    /\ pssUnmounted
    /\ tstUnmounted
    /\ chartUnmounted
    /\ dashUnmounted

InitResults ==
    /\ screen = "results"
    /\ server \in {sv \in ModalServers(PlayerLists) :
                     sv.schedules = <<>>}
    /\ loadCap = 1
    /\ grmScheduleId = "s1"
    /\ grmLoad = grmNoLocals
    /\ results = <<>>
    /\ totalPlayers = 0
    /\ totalPrizePool = 0
    /\ grmLoading = TRUE
    /\ pdmUnmounted
    /\ lbUnmounted
    /\ pssUnmounted
    /\ tstUnmounted
    /\ chartUnmounted
    /\ dashUnmounted

NextHistory == pdmStart \/ pdmResolveAll \/ pdmResolveLevels

NextResults == grmStart \/ grmResolveGames \/ grmResolveAll \/ grmResolveLevels

\* PlayerDetailModal, mounted once
SpecHistory == InitHistory /\ [][NextHistory]_vars

\* GameResultsModal, mounted once
SpecResults == InitResults /\ [][NextResults]_vars

\* GameResultsModal, rendered with one schedule after another
NextReloads ==
    \/ NextResults
    \/ \E scheduleId \in {"s1", "s2", "s3"} : grmChangeSchedule(scheduleId)

SpecReloads == InitResults /\ [][NextReloads]_vars

\* either modal, mounted once
SpecModals == (InitHistory \/ InitResults) /\ [][NextHistory \/ NextResults]_vars

GameConfig(id, name) == [id |-> id, orgId |-> ORG_ID, name |-> name]

\* TournamentSchedule collections of the Dashboard: a past, a future and
\* another tournament's game; entries out of date order, without a gameId and
\* without a date
DashScheduleLists ==
    { << Sched("s1", NoStr, "T1", "2024-01-05", 1, "COMPLETED", "c1"),
         Sched("s2", "T1", NoStr, "2024-01-19", 3, "SCHEDULED", "c1"),
         Sched("s3", NoStr, "T2", "2024-01-12", 2, "SCHEDULED", "c2") >>,
      << Sched("s2", NoStr, "T1", "2024-01-19", 3, "SCHEDULED", NoStr),
         Sched("s1", NoStr, "T1", "2024-01-12", 2, "SCHEDULED", "c2"),
         Sched("s3", NoStr, "T2", NoStr, undefined, "SCHEDULED", "c1") >> }

\* Tournament collections of the Dashboard: those above, one with a
\* tournament of another organization between two of the organization, and
\* one whose second tournament has no points structure
DashTournamentLists ==
    TournamentLists \cup
        { <<Tour("T2", ORG_ID, "P2"), Tour("T3", "other", "P1"), Tour("T1", ORG_ID, "P1")>>,
          <<Tour("T1", ORG_ID, "P1"), Tour("T2", ORG_ID, NoStr)>> }

\* the servers the Dashboard is mounted against
DashServers ==
    { [tournaments |-> ts, schedules |-> ss,
       pointLevels |-> [p \in {"P1", "P2"} |->
                          IF p = "P1" THEN <<Level(1, 50), Level(2, 30)>>
                          ELSE <<Level(1, 25)>>],
       gameConfigurations |-> [c \in {"c1", "c2"} |->
                          IF c = "c1" THEN <<GameConfig("c1", "Main"), GameConfig("c1", "Old")>>
                          ELSE <<>>]] :
        ts \in DashTournamentLists, ss \in DashScheduleLists }

InitDashboard ==
    /\ screen = "dashboard"
    /\ server \in DashServers
    /\ loadCap = MaxLoads + 1
    /\ now \in [day : {12}, west : BOOLEAN]
    /\ dashTournaments = <<>>
    /\ selectedTournament = <<>>
    /\ nextGame = <<>>
    /\ gameConfig = <<>>
    /\ dashPointLevels = <<>>
    /\ dashLoading = TRUE
    /\ refreshKey = 0
    /\ refreshing = FALSE
    /\ dashListPc = "mounted"
    /\ refresh = [pc |-> "idle", selectedTournament |-> <<>>]
    /\ dashLoads = <<>>
    /\ pdmUnmounted
    /\ grmUnmounted
    /\ lbUnmounted
    /\ pssUnmounted
    /\ tstUnmounted
    /\ chartUnmounted

NextDashboard ==
    \/ dashMount
    \/ dashResolveTournaments
    \/ \E i \in DOMAIN dashTournaments : dashSelectTournament(i)
    \/ dashClickRefresh
    \/ dashRefreshTournaments
    \/ \E n \in DOMAIN dashLoads : dashResolveSchedule(n)
    \/ \E n \in DOMAIN dashLoads : dashResolveConfig(n)
    \/ \E n \in DOMAIN dashLoads : dashResolveLevels(n)

\* the Dashboard under selections and refreshes
SpecDashboard == InitDashboard /\ [][NextDashboard]_vars

\* the Dashboard against the server that returns a tournament of another
\* organization between two of the organization
InitOrganizations ==
    /\ screen = "dashboard"
    /\ server \in {sv \in DashServers : /\ Len(sv.tournaments) = 3
                                        /\ sv.tournaments[2].orgId # ORG_ID}
    /\ loadCap = MaxLoads
    /\ dashUnmounted
    /\ pdmUnmounted
    /\ grmUnmounted
    /\ lbUnmounted
    /\ pssUnmounted
    /\ tstUnmounted
    /\ chartUnmounted

SpecOrganizations == InitOrganizations /\ [][NextDashboard]_vars

\* the three components that join fetched collections into a view, the
\* modals against the servers with the longer prize collection
InitJoins ==
    \/ (InitHistory \/ InitResults) /\ Len(server.of[TournamentId].livePrizes) > 2
    \/ InitStats

SpecJoins == InitJoins /\ [][NextHistory \/ NextResults \/ NextStats]_vars

\* the two screens whose loads are keyed by a selection
SpecSelections ==
    (InitStats \/ InitLeaderboard) /\ [][NextStats \/ NextLeaderboard]_vars

\* the two components that name the player of a row
SpecNames == (InitLeaderboard \/ InitResults) /\ [][NextLeaderboard \/ NextResults]_vars

\* the two screens that build a game history of a player
SpecHistories == (InitHistory \/ InitStats) /\ [][NextHistory \/ NextStats]_vars

\* TournamentSchedule collections of the schedule table of T1: a past game
\* still SCHEDULED, a future game COMPLETED, a future game, a game without a
\* date that is COMPLETED, a game of today, a game of another tournament
TableScheduleLists ==
    { << Sched("s3", NoStr, "T1", "2024-01-19", 3, "COMPLETED", "c1"),
         Sched("s1", NoStr, "T1", "2024-01-05", 1, "SCHEDULED", "c1"),
         Sched("s4", "T1", NoStr, NoStr, undefined, "COMPLETED", "c2") >>,
      << Sched("s2", NoStr, "T1", "2024-01-12", 2, "SCHEDULED", NoStr),
         Sched("s3", NoStr, "T1", "2024-01-19", 3, "SCHEDULED", "c2"),
         Sched("s5", NoStr, "T2", "2024-01-05", 1, "COMPLETED", "c1") >> }

\* the servers the schedule table and the chart are rendered against
TableServers ==
    { [tournaments |-> <<>>, players |-> <<>>, schedules |-> ss,
       pointLevels |-> [p \in {"P1", "P2"} |-> <<>>],
       gameConfigurations |-> [c \in {"c1", "c2"} |->
                          IF c = "c1" THEN <<GameConfig("c1", "Main"), GameConfig("c1", "Old")>>
                          ELSE <<>>],
       of |-> [t \in {"T1", "T2"} |->
                 [NoRecords EXCEPT !.liveGames = IF t = "T1" THEN gs ELSE <<>>]]] :
        ss \in TableScheduleLists \cup ScheduleLists, gs \in GameLists }

InitSchedule ==
    /\ screen = "schedule"
    /\ server \in {sv \in TableServers : sv.schedules \in TableScheduleLists}
    /\ loadCap = MaxLoads
    /\ now \in [day : {12}, west : BOOLEAN]
    /\ dashNoState
    /\ tstTournamentId = "T1"
    /\ tstLoads = <<>>
    /\ tstSchedules = <<>>
    /\ gameConfigs = <<>>
    /\ tstLoading = TRUE
    /\ selectedSchedule = <<>>
    /\ chartUnmounted
    /\ pdmUnmounted
    /\ grmUnmounted
    /\ lbUnmounted
    /\ pssUnmounted

NextSchedule ==
    \/ tstMount
    \/ \E t \in {"T1", "T2"} : tstChangeTournament(t)
    \/ \E n \in DOMAIN tstLoads : tstResolveSchedule(n)
    \/ \E n \in DOMAIN tstLoads : tstResolveConfigs(n)
    \/ \E i \in DOMAIN tstSchedules : handleRowClick(i)
    \/ tstCloseResults

\* TournamentScheduleTable, re-rendered with other tournaments while it loads
SpecSchedule == InitSchedule /\ [][NextSchedule]_vars

InitChart ==
    /\ screen = "chart"
    /\ server \in {sv \in TableServers : sv.schedules \in ScheduleLists}
    /\ loadCap = MaxLoads
    /\ chartTournamentId = "T1"
    /\ chartLoads = <<>>
    /\ chartData = <<>>
    /\ chartLoading = TRUE
    /\ tstUnmounted
    /\ dashUnmounted
    /\ pdmUnmounted
    /\ grmUnmounted
    /\ lbUnmounted
    /\ pssUnmounted

\* every component on its own: the Leaderboard against one list of players,
\* the modals against no LivePlayer row, the statistics screen against the
\* servers of overlapping selections, and the Dashboard under refreshes, the
\* tournament that its mount selects staying selected
InitLoads ==
    \/ InitLeaderboard /\ server.players[2].id = "p2"
    \/ InitSchedule
    \/ InitChart
    \/ (InitHistory \/ InitResults) /\ server.of[TournamentId].livePlayers = <<>>
    \/ InitStats /\ loadCap = MaxLoads
    \/ InitOrganizations

NextLoads ==
    \/ NextLeaderboard
    \/ NextSchedule
    \/ chartMount
    \/ \E t \in {"T1", "T2"} : chartChangeTournament(t)
    \/ \E n \in DOMAIN chartLoads : chartResolve(n)
    \/ NextHistory
    \/ NextResults
    \/ NextStats
    \/ dashMount
    \/ dashResolveTournaments
    \/ dashClickRefresh
    \/ dashRefreshTournaments
    \/ \E n \in DOMAIN dashLoads : dashResolveSchedule(n)
    \/ \E n \in DOMAIN dashLoads : dashResolveConfig(n)
    \/ \E n \in DOMAIN dashLoads : dashResolveLevels(n)

\* a fetch that was issued settles: fetchAPI awaits fetch() and
\* response.json() and returns or throws when they settle
FetchesSettle ==
    /\ WF_vars(\E n \in DOMAIN lbLoads : lbResolve(n))
    /\ WF_vars(\E n \in DOMAIN tstLoads : tstResolveSchedule(n))
    /\ WF_vars(\E n \in DOMAIN tstLoads : tstResolveConfigs(n))
    /\ WF_vars(\E n \in DOMAIN chartLoads : chartResolve(n))
    /\ WF_vars(pdmResolveAll)
    /\ WF_vars(pdmResolveLevels)
    /\ WF_vars(grmResolveGames)
    /\ WF_vars(grmResolveAll)
    /\ WF_vars(grmResolveLevels)
    /\ WF_vars(pssResolvePlayers)
    /\ WF_vars(\E n \in DOMAIN pssLoads : pssResolveTournaments(n))
    /\ WF_vars(\E n \in DOMAIN pssLoads : pssResolveDetails(n))
    /\ WF_vars(dashResolveTournaments)
    /\ WF_vars(dashRefreshTournaments)

\* every component under fetches that settle
SpecLoads == InitLoads /\ [][NextLoads]_vars /\ FetchesSettle

---------------------------------------------------------------------------
(* What the joins are to compute, stated on the fetched collections *)

Max(S) == CHOOSE x \in S : \A y \in S : y <= x

\* the amount of the last point level of position pos, 0 when there is none
PointsOf(levels, pos) ==
    LET S == {j \in DOMAIN levels : levels[j].levelNum = pos}
    IN  IF pos = undefined \/ S = {} THEN 0 ELSE levels[Max(S)].amount

\* the amount of the last prize record of game g and place p, undefined when
\* there is none
PrizeOf(livePrizes, g, p) ==
    LET S == {j \in DOMAIN livePrizes :
                livePrizes[j].liveGameId = g /\ livePrizes[j].place = p}
    IN  IF S = {} THEN undefined ELSE livePrizes[Max(S)].amount

\* the date of the schedule that row i's played game resolves to, NoStr when
\* the game or the schedule cannot be resolved
DateOfRow(l, i) ==
    LET GI == {j \in DOMAIN l.liveGames : l.liveGames[j].id = l.livePlayers[i].liveGameId}
        sid == l.liveGames[Max(GI)].scheduleId
        SI == {j \in DOMAIN l.schedules : l.schedules[j].id = sid}
    IN  IF GI = {} THEN NoStr
        ELSE IF sid = NoStr \/ SI = {} THEN NoStr
        ELSE l.schedules[Max(SI)].date

\* the rows of the modal's player with a resolvable date
DatedRows(l) ==
    {i \in DOMAIN l.livePlayers :
        l.livePlayers[i].playerId = pdmPlayerId /\ DateOfRow(l, i) # NoStr}

\* the rows R in the order of key, rows of equal key in collection order
InOrder(R, key) ==
    CHOOSE s \in [1..Cardinality(R) -> R] :
        \A a, b \in 1..Cardinality(R) :
            a < b => \/ key[s[a]] < key[s[b]]
                     \/ key[s[a]] = key[s[b]] /\ s[a] < s[b]

\* the dated rows ascending by date
DatedOrder(l) ==
    InOrder(DatedRows(l), [i \in DatedRows(l) |-> getTime(DateOfRow(l, i))])

\* the rows of the modal's game that have a finishing position
PlacedRows(l) ==
    {i \in DOMAIN l.livePlayers :
        l.livePlayers[i].liveGameId = l.game.id /\ Truthy(l.livePlayers[i].placed)}

\* the placed rows ascending by position
PlacedOrder(l) ==
    InOrder(PlacedRows(l), [i \in PlacedRows(l) |-> l.livePlayers[i].placed])

\* map holds, for every key of pairs, the value of the last pair of that key,
\* and nothing else
LastWriteWins(map, pairs) ==
    /\ DOMAIN map = {pairs[i][1] : i \in DOMAIN pairs}
    /\ \A i \in DOMAIN pairs :
          (\A j \in DOMAIN pairs : j > i => pairs[j][1] # pairs[i][1])
              => map[pairs[i][1]] = pairs[i][2]

pdmSet == screen = "history" /\ pdmLoad.outcome = "set"
grmSet == screen = "results" /\ grmLoad.outcome = "set"

\* a missing counter counts as 0
Counter(x) == IF x = undefined THEN 0 ELSE x

\* the position of tournament record t in the list ts
TournamentIndex(ts, t) == CHOOSE i \in DOMAIN ts : ts[i] = t

\* the rows of player playerId, among the collections f fetched for one
\* tournament, with a resolvable date and a finishing position
StatsRows(playerId, f) ==
    {i \in DOMAIN f.livePlayers :
        /\ f.livePlayers[i].playerId = playerId
        /\ DateOfRow(f, i) # NoStr
        /\ Truthy(f.livePlayers[i].placed)}

\* those rows ascending by date
StatsOrder(playerId, f) ==
    InOrder(StatsRows(playerId, f),
            [i \in StatsRows(playerId, f) |-> getTime(DateOfRow(f, i))])

\* the calls of loadPlayerStatistics that have set their statistics
pssSetLoads == {n \in DOMAIN pssLoads : pssLoads[n].outcome = "set"}

\* C1 (as claimed): once every load of a screen has settled, the leaderboard
\* and the player statistics displayed are the ones computed by the load
\* started last, whatever the order in which the loads resolved.
C1_LatestSelectionDisplayed ==
    /\ (/\ screen = "leaderboard"
        /\ lbLoads # <<>>
        /\ \A n \in DOMAIN lbLoads : lbLoads[n].pc = "done")
            => leaderboard = lbLoads[Len(lbLoads)].entries
    /\ (/\ screen = "stats"
        /\ pssLoads # <<>>
        /\ \A n \in DOMAIN pssLoads : pssLoads[n].pc = "done")
            => /\ playerStats = pssLoads[Len(pssLoads)].stats
               /\ playerStats[1].player = selectedPlayer[1]

\* the schedule entries of tournament t on the server
ScheduleOf(t) ==
    {server.schedules[i] : i \in {j \in DOMAIN server.schedules :
        \/ server.schedules[j].tournamnetId = t.id
        \/ server.schedules[j].tournamentId = t.id}}

\* C2 (as claimed): once a refresh that reloaded the details of a selected
\* tournament has ended and every load of the Dashboard has settled, the next
\* game displayed is a schedule entry of the tournament selected now, and the
\* game configuration displayed is that of a schedule entry of that tournament.
C2_RefreshShowsSelectedTournament ==
    (/\ screen = "dashboard"
     /\ dashListPc = "done"
     /\ dashLoads = <<>>
     /\ refresh.pc = "idle"
     /\ refreshKey > 0
     /\ refresh.selectedTournament # <<>>
     /\ selectedTournament # <<>>)
        => /\ nextGame # <<>> => nextGame[1] \in ScheduleOf(selectedTournament[1])
           /\ gameConfig # <<>> =>
                \E e \in ScheduleOf(selectedTournament[1]) : e.gameId = gameConfig[1].id

C4_PointsFromLevels ==
    /\ pdmSet => \A k \in DOMAIN gameHistory :
                    /\ gameHistory[k].points = PointsOf(pdmLoad.pointLevels,
                                                        gameHistory[k].position)
                    /\ gameHistory[k].points # undefined
    /\ grmSet => \A k \in DOMAIN results :
                    /\ results[k].points = PointsOf(grmLoad.pointLevels,
                                                    results[k].position)
                    /\ results[k].points # undefined

\* a history with an entry whose position has no point level, which gets 0,
\* and an entry whose position has a level, which gets the level's amount
C4_Witness ==
    /\ pdmSet
    /\ pdmLoad.pointLevels # <<>>
    /\ \E k \in DOMAIN gameHistory :
          /\ gameHistory[k].position = 3
          /\ gameHistory[k].points = 0
    /\ \E k \in DOMAIN gameHistory :
          /\ gameHistory[k].position = 1
          /\ gameHistory[k].points = 50

\* C5 (as claimed): in the per-tournament game histories of the statistics
\* screen, two entries built from rows of the same game and finishing
\* position have the same points and the same prize money, whatever is stored
\* on the rows.
C5_PointsAndPrizeFromPosition ==
    \A n \in pssSetLoads :
        LET l == pssLoads[n]
            details == l.stats[1].tournamentDetails
        IN  \A k \in DOMAIN details :
              LET f == l.fetched[TournamentIndex(l.tournaments, details[k].tournament)]
                  ord == StatsOrder(l.player.id, f)
                  h == details[k].gameHistory
              IN  /\ Len(h) = Cardinality(StatsRows(l.player.id, f))
                  /\ \A a, b \in DOMAIN h :
                        (/\ f.livePlayers[ord[a]].liveGameId = f.livePlayers[ord[b]].liveGameId
                         /\ f.livePlayers[ord[a]].placed = f.livePlayers[ord[b]].placed)
                            => /\ h[a].points = h[b].points
                               /\ h[a].prizeMoney = h[b].prizeMoney

\* C6: the prize money of an entry is the amount of the prize record of the
\* row's game and finishing position (the last one, if several), absent in
\* the history and 0 in the results when there is no such record; no other
\* game's or place's record and no player id enters the lookup.
C6_PrizeByGameAndPlace ==
    /\ pdmSet =>
          /\ Len(gameHistory) = Cardinality(DatedRows(pdmLoad))
          /\ \A k \in DOMAIN gameHistory :
                LET row == pdmLoad.livePlayers[DatedOrder(pdmLoad)[k]]
                IN  gameHistory[k].prizeMoney =
                        PrizeOf(pdmLoad.livePrizes, row.liveGameId, row.placed)
    /\ grmSet =>
          /\ Len(results) = Cardinality(PlacedRows(grmLoad))
          /\ \A k \in DOMAIN results :
                LET row == grmLoad.livePlayers[PlacedOrder(grmLoad)[k]]
                IN  results[k].prizeMoney =
                        OrZero(PrizeOf(grmLoad.livePrizes, grmLoad.game.id, row.placed))

\* results with a prize for one row and none for another, although the other
\* game has a prize record of that row's place
C6_Witness ==
    /\ grmSet
    /\ \E k \in DOMAIN results : results[k].prizeMoney > 0
    /\ \E k \in DOMAIN results :
          /\ results[k].prizeMoney = 0
          /\ \E j \in DOMAIN grmLoad.livePrizes :
                /\ grmLoad.livePrizes[j].place = results[k].position
                /\ grmLoad.livePrizes[j].liveGameId # grmLoad.game.id
                /\ grmLoad.livePrizes[j].amount > 0

\* C7 (as claimed): no entry of a game history, in PlayerDetailModal or in
\* the statistics screen, is built from a row without a finishing position,
\* and the gamesPlayed of the statistics is the standing's counter.
C7_NoEntryWithoutPosition ==
    /\ pdmSet => \A k \in DOMAIN gameHistory : gameHistory[k].position # undefined
    /\ \A n \in pssSetLoads :
          LET l == pssLoads[n]
              details == l.stats[1].tournamentDetails
          IN  \A k \in DOMAIN details :
                LET f == l.fetched[TournamentIndex(l.tournaments, details[k].tournament)]
                    tp == f.tournamentPlayers[FindStanding(f.tournamentPlayers, l.player.id)]
                IN  /\ \A a \in DOMAIN details[k].gameHistory :
                          details[k].gameHistory[a].position # undefined
                    /\ details[k].gamesPlayed = Counter(tp.gamesPlayed)

\* C8: the history of PlayerDetailModal holds exactly the player's rows whose
\* played game resolves to a schedule with a date, ascending by date, rows of
\* equal date in the order of the fetched collection.
C8_HistoryDatedRowsInOrder ==
    pdmSet =>
        /\ Len(gameHistory) = Cardinality(DatedRows(pdmLoad))
        /\ \A k \in DOMAIN gameHistory :
              LET i == DatedOrder(pdmLoad)[k]
              IN  /\ gameHistory[k].gameDate = DateOfRow(pdmLoad, i)
                  /\ gameHistory[k].position = pdmLoad.livePlayers[i].placed

\* a history of two rows of one instant under two spellings of the date
C8_Witness ==
    /\ pdmSet
    /\ Len(gameHistory) = 2
    /\ gameHistory[1].gameDate # gameHistory[2].gameDate
    /\ getTime(gameHistory[1].gameDate) = getTime(gameHistory[2].gameDate)
    /\ gameHistory[1].position # gameHistory[2].position

\* C9: every lookup map of the two modals holds, for each key of its
\* collection, the value of the last record of that key, and one entry per
\* distinct key.
C9_LastWriteWins ==
    /\ pdmSet =>
          /\ LastWriteWins(pdmLoad.gameMap,
                [i \in DOMAIN pdmLoad.liveGames |->
                    <<pdmLoad.liveGames[i].id, pdmLoad.liveGames[i]>>])
          /\ LastWriteWins(pdmLoad.scheduleMap,
                [i \in DOMAIN pdmLoad.schedules |->
                    <<pdmLoad.schedules[i].id, pdmLoad.schedules[i]>>])
          /\ LastWriteWins(pdmLoad.pointLevelMap,
                [i \in DOMAIN pdmLoad.pointLevels |->
                    <<pdmLoad.pointLevels[i].levelNum, pdmLoad.pointLevels[i].amount>>])
          /\ LastWriteWins(pdmLoad.prizeMap,
                [i \in DOMAIN pdmLoad.livePrizes |->
                    <<PrizeKey(pdmLoad.livePrizes[i].liveGameId, pdmLoad.livePrizes[i].place),
                      pdmLoad.livePrizes[i].amount>>])
    /\ grmSet =>
          /\ LastWriteWins(grmLoad.pointLevelMap,
                [i \in DOMAIN grmLoad.pointLevels |->
                    <<grmLoad.pointLevels[i].levelNum, grmLoad.pointLevels[i].amount>>])
          /\ LastWriteWins(grmLoad.playerMap,
                [i \in DOMAIN grmLoad.players |->
                    <<grmLoad.players[i].id, grmLoad.players[i]>>])
          /\ \A i \in DOMAIN grmLoad.livePrizes :
                /\ grmLoad.livePrizes[i].liveGameId = grmLoad.game.id
                /\ \A j \in DOMAIN grmLoad.livePrizes :
                      j > i => \/ grmLoad.livePrizes[j].liveGameId # grmLoad.game.id
                               \/ grmLoad.livePrizes[j].place # grmLoad.livePrizes[i].place
                => grmLoad.prizeMap[PrizeKey(grmLoad.game.id, grmLoad.livePrizes[i].place)]
                       = grmLoad.livePrizes[i].amount

\* a history load whose games, schedules, point levels and prizes each hold
\* two records of one key with different values
C9_Witness ==
    /\ pdmSet
    /\ \E i, j \in DOMAIN pdmLoad.liveGames :
          /\ i < j
          /\ pdmLoad.liveGames[i].id = pdmLoad.liveGames[j].id
          /\ pdmLoad.liveGames[i] # pdmLoad.liveGames[j]
    /\ \E i, j \in DOMAIN pdmLoad.pointLevels :
          /\ i < j
          /\ pdmLoad.pointLevels[i].levelNum = pdmLoad.pointLevels[j].levelNum
          /\ pdmLoad.pointLevels[i].amount # pdmLoad.pointLevels[j].amount
    /\ \E i, j \in DOMAIN pdmLoad.livePrizes :
          /\ i < j
          /\ pdmLoad.livePrizes[i].liveGameId = pdmLoad.livePrizes[j].liveGameId
          /\ pdmLoad.livePrizes[i].place = pdmLoad.livePrizes[j].place
          /\ pdmLoad.livePrizes[i].amount # pdmLoad.livePrizes[j].amount

\* C10: in the statistics of one tournament, gamesPlayed, totalPoints,
\* totalWinnings, totalKnockouts and totalBounties are the counters of the
\* player's standing (0 for a missing counter), and bestPosition is the least
\* position of the tournament's game history, 0 when the history is empty.
C10_TotalsFromStandingBestFromHistory ==
    \A n \in pssSetLoads :
        LET l == pssLoads[n]
            details == l.stats[1].tournamentDetails
        IN  \A k \in DOMAIN details :
              LET d == details[k]
                  f == l.fetched[TournamentIndex(l.tournaments, d.tournament)]
                  tp == f.tournamentPlayers[FindStanding(f.tournamentPlayers, l.player.id)]
                  h == d.gameHistory
              IN  /\ d.gamesPlayed = Counter(tp.gamesPlayed)
                  /\ d.totalPoints = Counter(tp.totalPoints)
                  /\ d.totalWinnings = Counter(tp.earnings)
                  /\ d.totalKnockouts = Counter(tp.totalEliminated)
                  /\ d.totalBounties = Counter(tp.totalBounties)
                  /\ Len(h) = Cardinality(StatsRows(l.player.id, f))
                  /\ IF h = <<>> THEN d.bestPosition = 0
                     ELSE /\ \E a \in DOMAIN h : h[a].position = d.bestPosition
                          /\ \A a \in DOMAIN h : d.bestPosition <= h[a].position

\* statistics displayed with a tournament whose history is empty, the totals
\* of the standing still reported with the sentinel 0 as best position, and a
\* tournament whose best position is the least of two different positions
C10_Witness ==
    /\ screen = "stats"
    /\ playerStats # <<>>
    /\ \E k \in DOMAIN playerStats[1].tournamentDetails :
          LET d == playerStats[1].tournamentDetails[k]
          IN  /\ d.gameHistory = <<>>
              /\ d.gamesPlayed > 0
              /\ d.bestPosition = 0
    /\ \E k \in DOMAIN playerStats[1].tournamentDetails :
          LET d == playerStats[1].tournamentDetails[k]
          IN  /\ Len(d.gameHistory) >= 2
              /\ \E a \in DOMAIN d.gameHistory : d.gameHistory[a].position > d.bestPosition

\* the quotient q is a number and equals n / d
IsQuotient(q, n, d) == q[2] # 0 /\ d # 0 /\ q[1] * d = n * q[2]

\* the quotient q is the number 0
IsZero(q) == q[2] # 0 /\ q[1] = 0

\* q is totalPoints / gamesPlayed, or 0 when gamesPlayed is 0 or missing
IsAverage(q, totalPoints, gamesPlayed) ==
    IF Counter(gamesPlayed) > 0
    THEN IsQuotient(q, Counter(totalPoints), gamesPlayed)
    ELSE IsZero(q)

\* C11: the averagePoints of every leaderboard entry, of every tournament's
\* statistics and of the cross-tournament statistics is totalPoints /
\* gamesPlayed when gamesPlayed > 0 and the number 0 when gamesPlayed is 0 or
\* missing; no quotient has a zero denominator.
C11_AveragePointsGuarded ==
    /\ \A n \in DOMAIN lbLoads :
          \A i \in DOMAIN lbLoads[n].entries :
              IsAverage(lbLoads[n].entries[i].averagePoints,
                        lbLoads[n].tournamentPlayers[i].totalPoints,
                        lbLoads[n].tournamentPlayers[i].gamesPlayed)
    /\ \A n \in pssSetLoads :
          LET l == pssLoads[n]
              st == l.stats[1]
          IN  /\ IsAverage(st.averagePoints, st.totalPoints, st.totalGamesPlayed)
              /\ \A k \in DOMAIN st.tournamentDetails :
                    LET f == l.fetched[TournamentIndex(l.tournaments,
                                                       st.tournamentDetails[k].tournament)]
                        tp == f.tournamentPlayers[FindStanding(f.tournamentPlayers, l.player.id)]
                    IN  IsAverage(st.tournamentDetails[k].averagePoints,
                                  tp.totalPoints, tp.gamesPlayed)

\* a leaderboard with an entry of 480 points in 12 games, whose average is
\* 40, and an entry without a gamesPlayed counter, whose average is 0
C11_Witness ==
    /\ screen = "leaderboard"
    /\ \E i \in DOMAIN leaderboard :
          /\ leaderboard[i].totalPoints = 480
          /\ leaderboard[i].gamesPlayed = 12
          /\ IsQuotient(leaderboard[i].averagePoints, 40, 1)
    /\ \E i \in DOMAIN leaderboard :
          /\ leaderboard[i].gamesPlayed = 0
          /\ IsZero(leaderboard[i].averagePoints)

RECURSIVE SumOver(_, _)
\* the sum of f[x] over the x of the finite set S
SumOver(S, f) ==
    IF S = {} THEN 0
    ELSE LET x == CHOOSE y \in S : TRUE IN f[x] + SumOver(S \ {x}, f)

\* the positions pooled over the game histories of details: one per
\* (tournament, entry)
Pool(details) ==
    UNION {{<<k, a>> : a \in DOMAIN details[k].gameHistory} : k \in DOMAIN details}

PoolPosition(details) ==
    [e \in Pool(details) |-> details[e[1]].gameHistory[e[2]].position]

\* C12: in the cross-tournament statistics the five totals are the sums of
\* the per-tournament totals, and bestPosition, worstPosition and
\* averagePosition are the minimum, the maximum and the mean of the positions
\* pooled over all tournaments' game histories, each 0 when there is none.
C12_TotalsSummedPositionsPooled ==
    \A n \in pssSetLoads :
        LET st == pssLoads[n].stats[1]
            ds == st.tournamentDetails
            pool == Pool(ds)
            pos == PoolPosition(ds)
        IN  /\ st.totalGamesPlayed = SumOver(DOMAIN ds, [k \in DOMAIN ds |-> ds[k].gamesPlayed])
            /\ st.totalPoints = SumOver(DOMAIN ds, [k \in DOMAIN ds |-> ds[k].totalPoints])
            /\ st.totalWinnings = SumOver(DOMAIN ds, [k \in DOMAIN ds |-> ds[k].totalWinnings])
            /\ st.totalKnockouts = SumOver(DOMAIN ds, [k \in DOMAIN ds |-> ds[k].totalKnockouts])
            /\ st.totalBounties = SumOver(DOMAIN ds, [k \in DOMAIN ds |-> ds[k].totalBounties])
            /\ st.tournamentsParticipated = Len(ds)
            /\ IF pool = {}
               THEN /\ st.bestPosition = 0
                    /\ st.worstPosition = 0
                    /\ IsZero(st.averagePosition)
               ELSE /\ \E e \in pool : pos[e] = st.bestPosition
                    /\ \A e \in pool : st.bestPosition <= pos[e]
                    /\ \E e \in pool : pos[e] = st.worstPosition
                    /\ \A e \in pool : st.worstPosition >= pos[e]
                    /\ IsQuotient(st.averagePosition, SumOver(pool, pos), Cardinality(pool))

\* statistics over two tournaments that both have game-history entries, the
\* best position coming from one tournament and the worst from the other
C12_Witness ==
    /\ screen = "stats"
    /\ playerStats # <<>>
    /\ Len(playerStats[1].tournamentDetails) = 2
    /\ LET ds == playerStats[1].tournamentDetails
       IN  /\ ds[1].gameHistory # <<>>
           /\ ds[2].gameHistory # <<>>
           /\ playerStats[1].bestPosition < ds[2].bestPosition
           /\ playerStats[1].worstPosition = ds[2].bestPosition
           /\ playerStats[1].totalGamesPlayed = ds[1].gamesPlayed + ds[2].gamesPlayed
           /\ ds[1].gamesPlayed > 0
           /\ ds[2].gamesPlayed > 0

---------------------------------------------------------------------------
(* The views of the Leaderboard *)

\* the collections setLeaderboard has been, or could still be, called with:
\* the initial state and the entries of every call that reached it
FetchedCollections ==
    {<<>>} \cup {lbLoads[n].entries : n \in {m \in DOMAIN lbLoads : lbLoads[m].outcome = "set"}}

\* the orders of the indices of src
Orders(src) ==
    {p \in [DOMAIN src -> DOMAIN src] : \A j, k \in DOMAIN src : j # k => p[j] # p[k]}

\* out lists src by the metric of view v, largest first, rows of equal metric
\* in the order src has them
DescendingFrom(out, src, v) ==
    /\ Len(out) = Len(src)
    /\ \E p \in Orders(src) :
        /\ \A k \in DOMAIN src : out[k] = src[p[k]]
        /\ \A j, k \in DOMAIN src :
            j < k => \/ ViewMetric(src[p[j]], v) > ViewMetric(src[p[k]], v)
                     \/ /\ ViewMetric(src[p[j]], v) = ViewMetric(src[p[k]], v)
                        /\ p[j] < p[k]

\* the numbers of the Rank column of the rendered table, top row first
RanksShown == [k \in DOMAIN sortedData |-> RankShown(sortedData[k], k - 1)]

\* C13: whenever the Leaderboard shows its table, in any of the four views, the
\* rows are the loaded standings reordered by the metric of the current view,
\* largest first with a missing metric counted as 0, rows of equal metric in
\* the order of the fetched collection whatever views were shown before, and
\* the rank number shown in each row is its 1-based place in that table
C13_SortedByViewRankPositional ==
    (screen = "leaderboard" /\ ~lbLoading) =>
        /\ view \in LeaderboardView
        /\ \E src \in FetchedCollections : DescendingFrom(sortedData, src, view)
        /\ \A k \in DOMAIN sortedData : RanksShown[k] = k

\* a table shown in the winnings view after another view, where two rows tie
\* and a row's place differs from the place it was fetched at
C13_Witness ==
    /\ screen = "leaderboard"
    /\ ~lbLoading
    /\ view = "winnings"
    /\ \E j, k \in DOMAIN sortedData :
        /\ j < k
        /\ ViewMetric(sortedData[j], view) = ViewMetric(sortedData[k], view)
        /\ sortedData[j].rank # j
        /\ RanksShown[j] = j

\* C14: sorting by a view is idempotent and leaves the state alone: for every
\* view X, the view-X sort of the view-X sort of the loaded leaderboard is that
\* same order, and the stored leaderboard is still the collection that was
\* fetched after getSortedLeaderboard has run on it in any sequence of views
C14_SortIdempotentStateUnchanged ==
    (screen = "leaderboard" /\ ~lbLoading) =>
        /\ leaderboard \in FetchedCollections
        /\ \A X \in LeaderboardView :
            LET once == getSortedLeaderboard(leaderboard, X)
                twice == getSortedLeaderboard(once.sorted, X)
            IN  /\ twice.sorted = once.sorted
                /\ once.leaderboard = leaderboard
                /\ twice.leaderboard = once.sorted
        /\ getSortedLeaderboard(sortedData, view).sorted = sortedData

\* a table whose order differs from the stored leaderboard, with two rows of
\* equal metric, shown after the view was changed
C14_Witness ==
    /\ screen = "leaderboard"
    /\ ~lbLoading
    /\ view = "bounties"
    /\ sortedData # leaderboard
    /\ leaderboard # <<>>
    /\ \E j, k \in DOMAIN sortedData :
        j # k /\ ViewMetric(sortedData[j], view) = ViewMetric(sortedData[k], view)

---------------------------------------------------------------------------
(* Rows whose player has no Player record *)

\* the Player records of id playerId among allPlayers
RecordsOf(allPlayers, playerId) ==
    {allPlayers[i] : i \in {j \in DOMAIN allPlayers : allPlayers[j].id = playerId}}

\* the loadLeaderboard calls that reached setLeaderboard
lbSetLoads == {n \in DOMAIN lbLoads : screen = "leaderboard" /\ lbLoads[n].outcome = "set"}

\* C15: a row whose playerId has no Player record neither fails the
\* computation nor drops out of it: a loadLeaderboard call whose two fetches
\* succeeded builds one entry per fetched standing, in the fetched order, and
\* the entry of an unmatched standing has the player (id = the playerId,
\* firstName 'Unknown', lastName 'Player'); the single-game results keep every
\* placed row of the game and name an unmatched row 'Unknown Player'
C15_UnmatchedPlayerGetsPlaceholder ==
    /\ \A n \in DOMAIN lbLoads :
          (screen = "leaderboard" /\ lbLoads[n].outcome = "caught")
              => ~(lbLoads[n].fetched[1] /\ lbLoads[n].fetched[2])
    /\ \A n \in lbSetLoads :
          LET l == lbLoads[n]
          IN  /\ Len(l.entries) = Len(l.tournamentPlayers)
              /\ \A i \in DOMAIN l.entries :
                    LET known == RecordsOf(l.allPlayers, l.tournamentPlayers[i].playerId)
                    IN  /\ l.entries[i].playerId = l.tournamentPlayers[i].playerId
                        /\ known # {} => l.entries[i].player \in known
                        /\ known = {} =>
                              /\ l.entries[i].player.id = l.tournamentPlayers[i].playerId
                              /\ l.entries[i].player.firstName = "Unknown"
                              /\ l.entries[i].player.lastName = "Player"
    /\ (screen = "leaderboard" /\ ~lbLoading) => Len(sortedData) = Len(leaderboard)
    /\ grmSet =>
          /\ Len(results) = Cardinality(PlacedRows(grmLoad))
          /\ \A k \in DOMAIN results :
                LET row == grmLoad.livePlayers[PlacedOrder(grmLoad)[k]]
                    known == RecordsOf(grmLoad.players, row.playerId)
                IN  /\ results[k].position = row.placed
                    /\ known # {} => results[k].playerName \in
                            {p.firstName \o " " \o p.lastName : p \in known}
                    /\ known = {} => results[k].playerName = "Unknown Player"

\* a leaderboard on screen with a placeholder row next to a known player
PlaceholderOnBoard ==
    /\ screen = "leaderboard"
    /\ ~lbLoading
    /\ \E j, k \in DOMAIN sortedData :
        /\ sortedData[j].player.firstName = "Unknown"
        /\ sortedData[j].player.id = "p3"
        /\ sortedData[k].player.firstName = "Ann"

\* results that name one row and show another as 'Unknown Player'
PlaceholderInResults ==
    /\ grmSet
    /\ \E j, k \in DOMAIN results :
        /\ results[j].playerName = "Unknown Player"
        /\ results[k].playerName = "Al Lee"

C15_Witness == PlaceholderOnBoard \/ PlaceholderInResults

---------------------------------------------------------------------------
(* The single-game results *)

\* C16: when the played game of the schedule is found by scheduleId, the
\* results table holds exactly the rows of that game that have a finishing
\* position, ascending by position, and the total prize pool shown is the sum
\* of the prize money of the rows of the table, not a value of the game record
C16_ResultsPlacedRowsPoolIsSum ==
    grmSet =>
        /\ grmLoad.game \in {grmLoad.liveGames[i] : i \in DOMAIN grmLoad.liveGames}
        /\ grmLoad.game.scheduleId = grmScheduleId
        /\ Len(results) = Cardinality(PlacedRows(grmLoad))
        /\ \A k \in DOMAIN results :
              results[k].position = grmLoad.livePlayers[PlacedOrder(grmLoad)[k]].placed
        /\ \A j, k \in DOMAIN results : j < k => results[j].position <= results[k].position
        /\ totalPrizePool =
              SumOver(DOMAIN results, [k \in DOMAIN results |-> results[k].prizeMoney])

\* a table of two rows that were fetched in the other order
ResultsReordered ==
    /\ grmSet
    /\ Len(results) = 2
    /\ PlacedOrder(grmLoad)[1] > PlacedOrder(grmLoad)[2]
    /\ totalPrizePool > 0

\* a prize pool larger than the money of either row of the table, and not the
\* game's numOfPlayers
ResultsPoolOfTwo ==
    /\ grmSet
    /\ Len(results) = 2
    /\ totalPrizePool > results[1].prizeMoney
    /\ totalPrizePool > results[2].prizeMoney
    /\ totalPrizePool # grmLoad.game.numOfPlayers

\* a table that lacks a row of the game because the row has no position
ResultsRowDropped ==
    /\ grmSet
    /\ Len(results) = 1
    /\ \E i \in DOMAIN grmLoad.livePlayers :
          /\ grmLoad.livePlayers[i].liveGameId = grmLoad.game.id
          /\ ~Truthy(grmLoad.livePlayers[i].placed)

C16_Witness == ResultsReordered \/ ResultsPoolOfTwo \/ ResultsRowDropped

---------------------------------------------------------------------------
(* The two spellings of the tournament key of a schedule record *)

\* record s names the modal's tournament under one of the two spellings
KeyedToTournament(s) == s.tournamnetId = TournamentId \/ s.tournamentId = TournamentId

\* loadPlayerHistory holds what getTournamentSchedule(tournamentId) returned
pdmFetched == screen = "history" /\ pdmLoad.pc \in {"awaitLevels", "done"}

\* C17: getTournamentSchedule(t) returns a fetched schedule record exactly
\* when its tournamnetId is t or its tournamentId is t, in the fetched order:
\* a record with the key under one spelling only is returned, a record that
\* matches under neither is not (a fetch that failed returns no record)
C17_EitherSpellingAccepted ==
    pdmFetched =>
        \/ pdmLoad.schedules = SelectSeq(server.schedules, KeyedToTournament)
        \/ pdmLoad.schedules = <<>>      \* the fetch failed: fetchAPI returned []

\* the schedules returned hold a record keyed by tournamentId only next to one
\* keyed by tournamnetId only
ScheduleOfEitherSpelling ==
    /\ pdmFetched
    /\ \E j, k \in DOMAIN pdmLoad.schedules :
          /\ pdmLoad.schedules[j].tournamentId = TournamentId
          /\ pdmLoad.schedules[j].tournamnetId = NoStr
          /\ pdmLoad.schedules[k].tournamnetId = TournamentId
          /\ pdmLoad.schedules[k].tournamentId = NoStr

\* the schedules returned lack a fetched record of another tournament
ScheduleOfOtherTournamentDropped ==
    /\ pdmFetched
    /\ pdmLoad.schedules # <<>>
    /\ \E i \in DOMAIN server.schedules :
          /\ ~KeyedToTournament(server.schedules[i])
          /\ \A k \in DOMAIN pdmLoad.schedules : pdmLoad.schedules[k] # server.schedules[i]

C17_Witness == ScheduleOfEitherSpelling \/ ScheduleOfOtherTournamentDropped

---------------------------------------------------------------------------
(* Tournaments of other organizations *)

\* tournament record t belongs to the configured organization
OfOrganization(t) == t.orgId = ORG_ID

\* C18: whatever tournament records the server returns, the Dashboard lists
\* only tournaments whose orgId is the configured organization id, in the
\* server's order, and the selected tournament is one of them
C18_OnlyOwnOrganization ==
    screen = "dashboard" =>
        /\ \/ dashTournaments = SelectSeq(server.tournaments, OfOrganization)
           \/ dashTournaments = <<>>      \* not loaded, or the fetch failed
        /\ \A i \in DOMAIN dashTournaments : dashTournaments[i].orgId = ORG_ID
        /\ selectedTournament # <<>> =>
              /\ selectedTournament[1].orgId = ORG_ID
              /\ \E i \in DOMAIN server.tournaments :
                    server.tournaments[i] = selectedTournament[1]
        /\ \A n \in DOMAIN dashLoads : dashLoads[n].tournament.orgId = ORG_ID

\* the server returned another organization's tournament between two of the
\* organization: the list shows the two, and the second one is selected
C18_Witness ==
    /\ screen = "dashboard"
    /\ Len(server.tournaments) = 3
    /\ ~OfOrganization(server.tournaments[2])
    /\ Len(dashTournaments) = 2
    /\ dashTournaments[1] = server.tournaments[1]
    /\ dashTournaments[2] = server.tournaments[3]
    /\ selectedTournament = <<dashTournaments[2]>>

---------------------------------------------------------------------------
(* Fan-in before join *)

\* the pointsId of the modal's tournament among ts, NoStr when the tournament
\* or its pointsId is missing
PointsIdOf(ts) ==
    LET t == FindTournament(ts, TournamentId)
    IN  IF t = 0 THEN NoStr ELSE ts[t].pointsId

\* every record of recs has its key in map
EveryKeyIn(map, recs, key(_)) == \A i \in DOMAIN recs : MapHas(map, key(recs[i]))

IdOf(r) == r.id

LevelNumOf(r) == r.levelNum

PrizeKeyOf(r) == PrizeKey(r.liveGameId, r.place)

\* C19: the views of loadPlayerHistory, loadGameResults and
\* loadPlayerStatistics are written only by a call whose fetches have all
\* resolved, the point-level fetch of a tournament with a pointsId included,
\* from lookup maps that hold every fetched record's key; until then, and
\* after a call that ended early, the view is as it was: nothing computed from
\* a part of the inputs is ever written
C19_FanInBeforeJoin ==
    /\ screen = "history" =>
          /\ ~pdmSet => gameHistory = <<>>
          /\ pdmSet =>
                /\ pdmLoad.pointsId = PointsIdOf(pdmLoad.tournaments)
                /\ EveryKeyIn(pdmLoad.gameMap, pdmLoad.liveGames, IdOf)
                /\ EveryKeyIn(pdmLoad.scheduleMap, pdmLoad.schedules, IdOf)
                /\ EveryKeyIn(pdmLoad.prizeMap, pdmLoad.livePrizes, PrizeKeyOf)
                /\ EveryKeyIn(pdmLoad.pointLevelMap, pdmLoad.pointLevels, LevelNumOf)
                /\ gameHistory = BuildHistory(pdmPlayerId, pdmLoad)
    /\ screen = "results" =>
          /\ ~grmSet => results = <<>> /\ totalPlayers = 0 /\ totalPrizePool = 0
          /\ grmSet =>
                /\ grmLoad.pointsId = PointsIdOf(grmLoad.tournaments)
                /\ EveryKeyIn(grmLoad.playerMap, grmLoad.players, IdOf)
                /\ EveryKeyIn(grmLoad.pointLevelMap, grmLoad.pointLevels, LevelNumOf)
                /\ results = BuildResults(grmLoad)
                /\ totalPrizePool =
                      SumOver(DOMAIN results, [k \in DOMAIN results |-> results[k].prizeMoney])
    /\ screen = "stats" =>
          /\ \/ playerStats = <<>>
             \/ \E n \in pssSetLoads : playerStats = pssLoads[n].stats
          /\ \A n \in DOMAIN pssLoads :
                LET l == pssLoads[n]
                IN  IF l.outcome = "set"
                    THEN /\ DOMAIN l.fetched = DOMAIN l.tournaments
                         /\ \A i \in DOMAIN l.fetched : l.fetched[i].ok
                         /\ l.stats = <<OverallStats(l.player,
                                          TournamentDetails(l.player.id, l.tournaments,
                                                            l.fetched, Len(l.tournaments)))>>
                    ELSE l.stats = <<>>

\* a history written after the point levels of the tournament had been
\* fetched last
HistoryAfterLevels ==
    /\ pdmSet
    /\ pdmLoad.pointsId # NoStr
    /\ pdmLoad.pointLevels # <<>>
    /\ gameHistory # <<>>

\* results written after the point levels of the tournament had been fetched
ResultsAfterLevels ==
    /\ grmSet
    /\ grmLoad.pointsId # NoStr
    /\ grmLoad.pointLevels # <<>>
    /\ results # <<>>

\* statistics of two tournaments written after the fetches of both
StatsAfterDetails ==
    /\ screen = "stats"
    /\ \E n \in pssSetLoads :
          /\ Len(pssLoads[n].tournaments) = 2
          /\ playerStats = pssLoads[n].stats
          /\ \A i \in DOMAIN pssLoads[n].fetched : pssLoads[n].fetched[i].livePlayers # <<>>

C19_Witness == HistoryAfterLevels \/ ResultsAfterLevels \/ StatsAfterDetails

---------------------------------------------------------------------------
(* A tournament record that cannot be resolved *)

\* the results of a settled loadGameResults that found its game have a row
\* per placed row of the game, with 0 points when the tournament or its
\* pointsId is missing
ResultsDegrade ==
    (screen = "results" /\ grmLoad.pc = "done" /\ grmLoad.outcome # "nogame") =>
        /\ Len(results) = Cardinality(PlacedRows(grmLoad))
        /\ PointsIdOf(grmLoad.tournaments) = NoStr =>
              \A k \in DOMAIN results : results[k].points = 0

\* a history that was set has an entry per dated row of the player, with 0
\* points when the tournament has no pointsId
HistorySetDegrades ==
    pdmSet =>
        /\ Len(gameHistory) = Cardinality(DatedRows(pdmLoad))
        /\ PointsIdOf(pdmLoad.tournaments) = NoStr =>
              \A k \in DOMAIN gameHistory : gameHistory[k].points = 0

\* loadPlayerHistory ended in its catch block, with every fetch fulfilled, over
\* a dated row of the player
HistoryAborted ==
    /\ screen = "history"
    /\ pdmLoad.pc = "done"
    /\ pdmLoad.outcome = "caught"
    /\ FindTournament(pdmLoad.tournaments, TournamentId) = 0
    /\ \E i \in DOMAIN server.tournaments : server.tournaments[i].id = TournamentId
    /\ DatedRows(pdmLoad) # {}
    /\ gameHistory = <<>>

\* C20 (as claimed): a tournament record that cannot be resolved, or that has
\* no pointsId, degrades to a default in both modals: once loadPlayerHistory
\* has settled, the history has an entry per dated row of the player, with 0
\* points when the tournament or its pointsId is missing, as the single-game
\* results have.
C20_UnresolvedTournamentDegrades ==
    /\ (screen = "history" /\ pdmLoad.pc = "done") =>
          /\ Len(gameHistory) = Cardinality(DatedRows(pdmLoad))
          /\ PointsIdOf(pdmLoad.tournaments) = NoStr =>
                \A k \in DOMAIN gameHistory : gameHistory[k].points = 0
    /\ ResultsDegrade

---------------------------------------------------------------------------
(* C21: every load ends, and ends with its loading flag false *)

\* a call of the load of each component is at one of its awaits
lbInFlight == \E n \in DOMAIN lbLoads : lbLoads[n].pc # "done"

tstInFlight == \E n \in DOMAIN tstLoads : tstLoads[n].pc # "done"

chartInFlight == \E n \in DOMAIN chartLoads : chartLoads[n].pc # "done"

pdmInFlight == pdmLoad.pc \in {"awaitAll", "awaitLevels"}

grmInFlight == grmLoad.pc \in {"awaitGames", "awaitAll", "awaitLevels"}

pssPlayersInFlight == pssPlayersPc = "await"

pssStatsInFlight == \E n \in DOMAIN pssLoads : pssLoads[n].pc # "done"

dashListInFlight == dashListPc = "await" \/ refresh.pc = "awaitTournaments"

\* the step ends the call of a load kept in loads, a sequence of calls
EndsCall(loads, loadsAfter) ==
    \E n \in DOMAIN loads : loads[n].pc # "done" /\ loadsAfter[n].pc = "done"

\* C21: as long as every issued fetch settles, every call of loadTournaments,
\* loadLeaderboard, loadSchedule, loadChartData, loadPlayerHistory,
\* loadGameResults, loadPlayers and loadPlayerStatistics comes to its end,
\* whether it set its data, returned early or caught an error; the step that
\* ends a call leaves the loading flag of its component false, and once no
\* call of a component is in flight its flag is false.
C21_EveryLoadEndsNotLoading ==
    /\ [][/\ EndsCall(lbLoads, lbLoads') => ~lbLoading'
          /\ EndsCall(tstLoads, tstLoads') => ~tstLoading'
          /\ EndsCall(chartLoads, chartLoads') => ~chartLoading'
          /\ EndsCall(pssLoads, pssLoads') => ~statsLoading'
          /\ (pdmInFlight /\ ~pdmInFlight') => ~pdmLoading'
          /\ (grmInFlight /\ ~grmInFlight') => ~grmLoading'
          /\ (pssPlayersInFlight /\ ~pssPlayersInFlight') => ~loading'
          /\ (dashListInFlight /\ ~dashListInFlight') => ~dashLoading']_vars
    /\ lbInFlight ~> (~lbInFlight /\ ~lbLoading)
    /\ tstInFlight ~> (~tstInFlight /\ ~tstLoading)
    /\ chartInFlight ~> (~chartInFlight /\ ~chartLoading)
    /\ pdmInFlight ~> (~pdmInFlight /\ ~pdmLoading)
    /\ grmInFlight ~> (~grmInFlight /\ ~grmLoading)
    /\ pssPlayersInFlight ~> (~pssPlayersInFlight /\ ~loading)
    /\ pssStatsInFlight ~> (~pssStatsInFlight /\ ~statsLoading)
    /\ dashListInFlight ~> (~dashListInFlight /\ ~dashLoading)

\* loadGameResults returned early, no game being played for the schedule
grmEndedEarly == grmLoad.pc = "done" /\ grmLoad.outcome = "nogame" /\ ~grmLoading

\* two overlapping calls of loadSchedule have both ended
tstBothEnded ==
    /\ Len(tstLoads) = 2
    /\ \A n \in DOMAIN tstLoads : tstLoads[n].pc = "done"
    /\ ~tstLoading

\* a refresh of the Dashboard has reloaded the list of tournaments
dashListReloaded == refreshKey > 0 /\ ~dashListInFlight /\ ~dashLoading

\* loadPlayerHistory ended in its catch block
pdmEndedCaught == pdmLoad.pc = "done" /\ pdmLoad.outcome = "caught" /\ ~pdmLoading

C21_Witness == grmEndedEarly \/ pdmEndedCaught \/ tstBothEnded \/ dashListReloaded

---------------------------------------------------------------------------
(* C22: the next scheduled game *)

\* the tournament a schedule entry is keyed to, under either spelling
TournamentOfEntry(s) == IF s.tournamnetId # NoStr THEN s.tournamnetId ELSE s.tournamentId

\* the entries of the server's schedule of the tournament of entry s that are
\* dated today or later
DatedTodayOrLater(s) ==
    {e \in {server.schedules[i] : i \in DOMAIN server.schedules} :
        /\ TournamentOfEntry(e) = TournamentOfEntry(s)
        /\ e.date # NoStr
        /\ getTime(e.date) >= now.day}

\* C22 (as claimed): the next game the Dashboard shows is a schedule entry
\* dated today or later, and no entry of its tournament dated today or later
\* has an earlier date.
C22_NextGameIsEarliestUpcoming ==
    (screen = "dashboard" /\ nextGame # <<>>) =>
        /\ nextGame[1] \in DatedTodayOrLater(nextGame[1])
        /\ \A e \in DatedTodayOrLater(nextGame[1]) :
              getTime(nextGame[1].date) <= getTime(e.date)

---------------------------------------------------------------------------
(* C23: the refresh protocol of the Dashboard *)

\* the calls of loadTournamentDetails in flight that handleRefresh awaits
dashAwaited == {n \in DOMAIN dashLoads : dashLoads[n].by = "handleRefresh"}

\* C23: a refresh starts only while refreshing is false, and refreshing is
\* true for as long as handleRefresh runs, so no two run at once; refreshKey
\* changes only by one, in the step that ends a handleRefresh, when its reload
\* of the tournaments and its own call of loadTournamentDetails have both
\* returned; that step leaves refreshing false.
C23_RefreshProtocol ==
    [][/\ (refresh.pc = "idle" /\ refresh'.pc # "idle") => (~refreshing /\ refreshing')
       /\ refreshing' <=> refresh'.pc # "idle"
       /\ Cardinality(dashAwaited') <= 1
       /\ (dashAwaited' # {}) <=> refresh'.pc = "awaitDetails"
       /\ (refresh.pc # "idle" /\ refresh'.pc = "idle") <=> refreshKey' # refreshKey
       /\ refreshKey' # refreshKey =>
            /\ refreshKey' = refreshKey + 1
            /\ \/ refresh.pc = "awaitDetails" /\ dashAwaited # {}
               \/ refresh.pc = "awaitTournaments" /\ refresh.selectedTournament = <<>>
            /\ dashAwaited' = {}]_vars

\* a refresh with a tournament selected has ended while the call of
\* loadTournamentDetails that the effect started is still in flight
dashRefreshedBeforeEffect ==
    /\ refreshKey > 0
    /\ refresh.pc = "idle"
    /\ refresh.selectedTournament # <<>>
    /\ dashLoads # <<>>

\* two refreshes have ended and nothing is in flight
dashRefreshedTwice ==
    /\ refreshKey = 2
    /\ refresh.pc = "idle"
    /\ ~refreshing
    /\ dashLoads = <<>>

C23_Witness == dashRefreshedBeforeEffect \/ dashRefreshedTwice

---------------------------------------------------------------------------
(* C24: results open for completed games only *)

\* the instant of a date lies before the start of the local today
BeforeToday(date) == StartOfDay(date) < now.day

\* C24: the schedule whose results the table has open, if any, has a date,
\* and its date lies before the start of today or its status is COMPLETED; a
\* schedule without a date is never opened, whatever its status.
C24_OnlyCompletedSelected ==
    (screen = "schedule" /\ selectedSchedule # <<>>) =>
        /\ selectedSchedule[1].date # NoStr
        /\ \/ BeforeToday(selectedSchedule[1].date)
           \/ selectedSchedule[1].status = "COMPLETED"

\* the rows of the table that have no date and the status COMPLETED
tstUndatedCompleted ==
    {i \in DOMAIN tstSchedules :
        tstSchedules[i].date = NoStr /\ tstSchedules[i].status = "COMPLETED"}

\* a game of a past day that is still SCHEDULED is open, in a table that has
\* a COMPLETED row without a date
tstOpenedPast ==
    /\ selectedSchedule # <<>>
    /\ selectedSchedule[1].status = "SCHEDULED"
    /\ getTime(selectedSchedule[1].date) < now.day
    /\ tstUndatedCompleted # {}

\* a COMPLETED game of a day to come is open
tstOpenedFuture ==
    /\ selectedSchedule # <<>>
    /\ selectedSchedule[1].status = "COMPLETED"
    /\ getTime(selectedSchedule[1].date) > now.day

C24_Witness == screen = "schedule" /\ (tstOpenedPast \/ tstOpenedFuture)

---------------------------------------------------------------------------
(* C25: the loading flags under overlapping loads *)

\* C25 (as claimed): in every component the loading flag is true while a call
\* of its load is in flight, also when two calls started for different props
\* or selections overlap.
C25_LoadingWhileInFlight ==
    /\ lbInFlight => lbLoading
    /\ tstInFlight => tstLoading
    /\ chartInFlight => chartLoading
    /\ pdmInFlight => pdmLoading
    /\ grmInFlight => grmLoading
    /\ pssStatsInFlight => statsLoading

---------------------------------------------------------------------------
(* C26: the selection and the list of tournaments *)

\* C26 (as claimed): a selected tournament is one of the tournaments of the
\* displayed list, after any mount, selections and refreshes.
C26_SelectionInList ==
    (screen = "dashboard" /\ selectedTournament # <<>>) =>
        \E i \in DOMAIN dashTournaments : dashTournaments[i].id = selectedTournament[1].id

---------------------------------------------------------------------------
(* C27: what a refresh does to the selection *)

\* the step is the one in which the reload of the tournaments made by
\* handleRefresh settles
RefreshListSettles == refresh.pc = "awaitTournaments" /\ refresh'.pc # "awaitTournaments"

---------------------------------------------------------------------------
(* C28: the points structure of the selected tournament *)

\* nothing of the Dashboard is in flight and a tournament is selected
dashSettledOn ==
    /\ screen = "dashboard"
    /\ dashListPc = "done"
    /\ refresh.pc = "idle"
    /\ dashLoads = <<>>
    /\ selectedTournament # <<>>

\* C28 (as claimed): once the details of the selected tournament are loaded
\* and nothing is in flight, the point levels displayed are those of its
\* pointsId (or none, where their fetch failed), and none when it has no
\* pointsId.
C28_PointLevelsOfSelected ==
    dashSettledOn =>
        IF selectedTournament[1].pointsId = NoStr
        THEN dashPointLevels = <<>>
        ELSE dashPointLevels \in {<<>>, server.pointLevels[selectedTournament[1].pointsId]}

---------------------------------------------------------------------------
(* C29: the summary of GameResultsModal and its table *)

===========================================================================
